---- MODULE Spec2Model ----
(***************************************************************************)
(* Shipment reconciliation of cio (src/cio/src/shipments.rs): the outbound *)
(* tracking state machine, the upsert of intake rows, the inbound tracking *)
(* poll and the field merge against the mirror (Airtable) record.          *)
(*                                                                         *)
(* Option<T> values are sequences: <<>> is None and <<v>> is Some(v).      *)
(* Timestamps are small naturals; f32 cost and coordinates are naturals    *)
(* with 0 for 0.0.                                                         *)
(***************************************************************************)
EXTENDS Integers, Sequences, FiniteSets, TLC

VARIABLES
    db,        \* outbound_shipments table: sequence of rows, the index is the row id
    labels,    \* carrier side: the transactions purchased so far, in order, each with
               \* the row it was bought for and whether the checkpoint after it was written
    mails,     \* per row id: "on the way" notifications sent to the recipient
    last,      \* the last loop body that ran: what it started from and what it called
    inbound,   \* one inbound shipment row (mirror record of refresh_inbound_shipments)
    incoming,  \* FieldMerge: the record being written (self)
    existing,  \* FieldMerge: the record already in the mirror
    merged,    \* FieldMerge: the result of update_airtable_record
    pickups,   \* package_pickups table: sequence of rows
    inflight,  \* per run of refresh_outbound_shipments: the row it loaded and has
               \* not yet reconciled, or None
    window,    \* get_next_business_day: the instant it is called at and its result
    spreadsheet, \* the sheet a run of refresh_outbound_shipments reads, its parsed
               \* columns and the position of its row loop, or None
    signup,    \* MailchimpWebhook::as_signup: the payload and the result, or None
    fetch      \* a paginated listing of the Ramp client: the server, the page being
               \* followed and the data collected, or None

vars == <<db, labels, mails, last, inbound, incoming, existing, merged, pickups,
          inflight, window, spreadsheet, signup, fetch>>

(***************************************************************************)
(* Bounds of the model.                                                    *)
(***************************************************************************)
MaxTime == 2      \* carrier status dates are 1..MaxTime
MaxHist == 1      \* longest tracking history the carrier returns
MaxLabels == 2    \* label purchases the carrier accepts in one behaviour
MaxRows == 2      \* rows of the outbound table
MaxRates == 2     \* rate quotes in one carrier shipment
MaxMails == 2     \* "on the way" notifications counted per row
MaxScan == 2      \* longest tracking history scanned for the shipped time
MaxPickups == 2   \* rows of the package_pickups table
MaxDays == 14     \* days on which get_next_business_day is called
MaxSheetRows == 2 \* data rows of the spreadsheet
MaxPages == 3     \* page links of a paginated listing

None == <<>>
Some(v) == <<v>>
Times == 1..MaxTime
OptTimes == {None} \cup {Some(t) : t \in Times}
\* Utc::now(): every date the carrier reports lies in the past
Now == MaxTime + 1

(***************************************************************************)
(* The spreadsheet: one form response per natural key (email, timestamp).  *)
(***************************************************************************)
FormResponse(email, name) ==
    [ email |-> email, created_time |-> 1, name |-> name, country |-> "US",
      contents |-> <<"1 x Oxide Hoodie, Size: M">> ]

OneResponse == { FormResponse("a@x.com", "Ann") }
TwoResponses == OneResponse \cup { FormResponse("b@x.com", "Bob") }

SheetNote == "Automatically generated from the Google sheet"

(***************************************************************************)
(* Links.                                                                  *)
(***************************************************************************)
\* OutboundShipment::oxide_tracking_link / InboundShipment::oxide_tracking_link
OxideTrackingLink(r) ==
    "https://track.oxide.computer/" \o r.carrier \o "/" \o r.tracking_number

\* str::to_lowercase on the carrier names, header cells and sent marks that occur
ToLowercase(s) ==
    CASE s = "USPS" -> "usps"
      [] s = "UPS" -> "ups"
      [] s = "FedEx" -> "fedex"
      [] s = "DHL" -> "dhl"
      [] s = "Timestamp" -> "timestamp"
      [] s = "Name" -> "name"
      [] s = "Company name" -> "company name"
      [] s = "Email Address" -> "email address"
      [] s = "Country" -> "country"
      [] s = "Hoodie" -> "hoodie"
      [] s = "Patagonia Fleece" -> "patagonia fleece"
      [] s = "Sent" -> "sent"
      [] s = "TRUE" -> "true"
      [] s = "FALSE" -> "false"
      [] OTHER -> s

\* NewInboundShipment::tracking_link: the provider's URL, kept when the carrier is unknown
TrackingLink(r) ==
    LET carrier == ToLowercase(r.carrier) IN
    CASE carrier = "usps" ->
            "https://tools.usps.com/go/TrackConfirmAction_input?origTrackNum=" \o r.tracking_number
      [] carrier = "ups" -> "https://www.ups.com/track?tracknum=" \o r.tracking_number
      [] carrier = "fedex" ->
            "https://www.fedex.com/apps/fedextrack/?tracknumbers=" \o r.tracking_number
      [] carrier = "dhl" ->
            "https://www.dhl.com/en/express/tracking.html?AWB=" \o r.tracking_number
      [] OTHER -> r.tracking_link

(***************************************************************************)
(* The carrier (Shippo).                                                   *)
(***************************************************************************)
LabelId(n) == "L" \o ToString(n)

\* The transaction the carrier holds for purchase number n: a purchase that did
\* not succeed has an object id and a status but no tracking number and no label.
Transaction(n, ok) ==
    [ object_id |-> LabelId(n),
      status |-> IF ok THEN "SUCCESS" ELSE "ERROR",
      tracking_number |-> IF ok THEN "T" \o ToString(n) ELSE "",
      tracking_url_provider |-> IF ok THEN "https://carrier.example/T" \o ToString(n) ELSE "",
      tracking_status |-> IF ok THEN "UNKNOWN" ELSE "",
      label_url |-> IF ok THEN "https://carrier.example/label/" \o ToString(n) ELSE "",
      eta |-> None,
      messages |-> IF ok THEN "" ELSE "rate expired" ]

\* Shippo::get_shipping_label: the transaction purchased under this id
GetShippingLabel(shippo_id) ==
    LET n == CHOOSE k \in 1..Len(labels) : LabelId(k) = shippo_id
    IN  Transaction(n, labels[n].ok)

\* TrackingStatus::default(), what a failed webhook registration is replaced by
DefaultTracking ==
    [ status |-> "", status_date |-> None, status_details |-> "", history |-> <<>> ]

CarrierStatuses == {"UNKNOWN", "TRANSIT", "IN_TRANSIT", "DELIVERED", "RETURNED", "FAILURE"}

HistoryEntries ==
    { [status |-> "TRANSIT", status_date |-> d] : d \in OptTimes }
        \cup { [status |-> "DELIVERED", status_date |-> Some(1)] }

RECURSIVE SeqsUpTo(_, _)
SeqsUpTo(S, n) ==
    IF n = 0 THEN {<<>>}
    ELSE LET shorter == SeqsUpTo(S, n - 1)
         IN  shorter \cup { Append(s, e) : s \in { q \in shorter : Len(q) = n - 1 }, e \in S }

\* what register_tracking_webhook answers; a status the code reads no date of
\* comes without one
TrackingAnswers ==
    { [status |-> st, status_date |-> d, status_details |-> "", history |-> h] :
        st \in {"TRANSIT", "IN_TRANSIT", "DELIVERED"}, d \in OptTimes,
        h \in SeqsUpTo(HistoryEntries, MaxHist) }
    \cup
    { [status |-> st, status_date |-> None, status_details |-> "", history |-> h] :
        st \in CarrierStatuses \ {"TRANSIT", "IN_TRANSIT", "DELIVERED"},
        h \in SeqsUpTo(HistoryEntries, MaxHist) }

\* answers whose history holds TRANSIT entries only, dated or not, with every
\* status the carrier reports
ScanAnswers ==
    { [status |-> st, status_date |-> d, status_details |-> "", history |-> h] :
        st \in CarrierStatuses, d \in OptTimes,
        h \in SeqsUpTo({ [status |-> "TRANSIT", status_date |-> e] : e \in OptTimes }, MaxScan) }

Rates ==
    { [provider |-> "USPS", amount_local |-> 5, attributes |-> {"BESTVALUE"}],
      [provider |-> "USPS", amount_local |-> 7, attributes |-> {"CHEAPEST", "FASTEST"}],
      [provider |-> "FedEx", amount_local |-> 9, attributes |-> {"FASTEST"}] }

(***************************************************************************)
(* What the outside world does in one pass: the answers of the carrier and *)
(* the call, if any, at which the pass is interrupted (an unwrap() on a    *)
(* failed call panics; "final_update" is the caller's update after the     *)
(* pass).                                                                  *)
(***************************************************************************)
FailPoints ==
    { "none", "geocode", "update_geocode", "update_pickup", "get_shipping_label",
      "create_shipment", "create_label", "parse_amount", "update_label", "print_label",
      "final_update" }

\* location is the geocoder's answer for the address (0 stands for 0.0)
NoAnswers ==
    [ fail |-> "none", webhook_ok |-> TRUE, tracking |-> DefaultTracking,
      rates |-> <<>>, label_ok |-> TRUE, location |-> [lat |-> 1, lng |-> 2] ]

\* a pass that reaches the tracking poll: every answer of the carrier, or the
\* webhook registration failing
TrackingWorlds ==
    { [NoAnswers EXCEPT !.tracking = t] : t \in TrackingAnswers }
        \cup { [NoAnswers EXCEPT !.webhook_ok = FALSE] }

\* a pass that reaches label creation, with every call answered
PurchaseWorlds ==
    { [NoAnswers EXCEPT !.rates = r, !.label_ok = ok, !.webhook_ok = w] :
        r \in SeqsUpTo(Rates, MaxRates), ok \in BOOLEAN, w \in BOOLEAN }

\* a tracking poll under any status and any transit history
ScanWorlds == { [NoAnswers EXCEPT !.tracking = t] : t \in ScanAnswers }

\* a pass interrupted at any of its calls, the carrier reporting no tracking event
CrashWorlds ==
    { [NoAnswers EXCEPT !.fail = f, !.rates = r, !.label_ok = ok] :
        f \in FailPoints, r \in SeqsUpTo(Rates, MaxRates), ok \in BOOLEAN }

\* a carrier that answers every call and reports no tracking event
QuietWorlds ==
    { [NoAnswers EXCEPT !.rates = r, !.label_ok = ok] :
        r \in SeqsUpTo(Rates, MaxRates), ok \in BOOLEAN }

(***************************************************************************)
(* Outbound shipment records.                                              *)
(***************************************************************************)
\* the fields parse_from_row_with_columns leaves at Default::default()
DefaultShipment(row) ==
    [ name |-> row.name, email |-> row.email, created_time |-> row.created_time,
      country |-> row.country, contents |-> row.contents, latitude |-> 0, longitude |-> 0,
      status |-> "", carrier |-> "", tracking_number |-> "", tracking_link |-> "",
      oxide_tracking_link |-> "", tracking_status |-> "", label_link |-> "", cost |-> 0,
      pickup_date |-> None, shipped_time |-> None, delivered_time |-> None, eta |-> None,
      shippo_id |-> "", messages |-> "", notes |-> "", geocode_cache |-> "",
      local_pickup |-> FALSE, link_to_package_pickup |-> <<>> ]

NaturalKey(r) == <<r.email, r.created_time>>

\* the match_on columns of the db attribute on NewOutboundShipment
MatchOn(r) == <<r.tracking_number, r.carrier>>

\* Row ids holding the candidate's match_on values; first() takes one of them,
\* in no stated order.
Matching(rows, cand) == { i \in 1..Len(rows) : MatchOn(rows[i]) = MatchOn(cand) }

\* upsert: update the matching row with the candidate, or insert it.
\* target = 0 inserts.
Upsert(rows, cand, target) ==
    IF target = 0 THEN Append(rows, cand) ELSE [rows EXCEPT ![target] = cand]

\* parse_from_row_with_columns: the candidate for a sheet row, carrying over the
\* computed fields of the row found under (email, created_time); found = 0 when
\* there is none. local_pickup and link_to_package_pickup come from the mirror.
ParseFromRowWithColumns(rows, row, found) ==
    IF found = 0 THEN DefaultShipment(row)
    ELSE LET shipment == rows[found] IN
         [ DefaultShipment(row) EXCEPT
             !.local_pickup = shipment.local_pickup,
             !.link_to_package_pickup = shipment.link_to_package_pickup,
             !.carrier = shipment.carrier,
             !.shippo_id = shipment.shippo_id,
             !.pickup_date = shipment.pickup_date,
             !.delivered_time = shipment.delivered_time,
             !.shipped_time = shipment.shipped_time,
             !.tracking_link = shipment.tracking_link,
             !.oxide_tracking_link = shipment.oxide_tracking_link,
             !.cost = shipment.cost,
             !.tracking_status = shipment.tracking_status,
             !.label_link = shipment.label_link,
             !.eta = shipment.eta,
             !.notes = shipment.notes,
             !.geocode_cache = shipment.geocode_cache,
             !.messages = shipment.messages,
             !.status = shipment.status,
             !.tracking_number = shipment.tracking_number,
             !.latitude = shipment.latitude,
             !.longitude = shipment.longitude ]

(***************************************************************************)
(* create_or_get_shippo_shipment, as stages over a pass state:             *)
(*   self   the record in memory                                           *)
(*   saved  the record as last written by update()                         *)
(*   bought the carrier's transactions                                     *)
(*   calls  the external calls made, in order                              *)
(*   request the shipment request sent to the carrier, or None             *)
(*   state  "run", "returned" or "failed" (a panic)                        *)
(***************************************************************************)
Failed(s) == [s EXCEPT !.state = "failed"]
Call(s, c) == [s EXCEPT !.calls = Append(@, c)]

\* self.update(db): a checkpoint, unless the write is the step that fails
Update(s, point, world) ==
    IF world.fail = point THEN Failed(s)
    ELSE [Call(s, "update") EXCEPT !.saved = s.self]

\* a geocode whose result is kept in memory only, until the end of the pass
GeocodeWithoutCheckpoint(s, world) ==
    IF s.state # "run" THEN s
    ELSE IF s.self.latitude = 0 \/ s.self.longitude = 0
    THEN IF world.fail = "geocode" THEN Failed(s)
         ELSE [Call(s, "geocode") EXCEPT !.self.latitude = world.location.lat,
                                         !.self.longitude = world.location.lng]
    ELSE s

\* lines 1034-1043
GeocodeStage(s, world) ==
    IF s.state # "run" THEN s
    ELSE IF s.self.latitude = 0 \/ s.self.longitude = 0
    THEN IF world.fail = "geocode" THEN Failed(s)
         ELSE Update([Call(s, "geocode") EXCEPT !.self.latitude = world.location.lat,
                                                !.self.longitude = world.location.lng],
                     "update_geocode", world)
    ELSE s

\* a local pickup that is marked "Picked up" and then carries on down the pass
LocalPickupCarriesOn(s, world) ==
    IF s.state = "run" /\ s.self.local_pickup
    THEN Update([s EXCEPT !.self.status = "Picked up"], "update_pickup", world)
    ELSE s

\* lines 1045-1051
LocalPickupStage(s, world) ==
    IF s.state # "run" THEN s
    ELSE IF s.self.local_pickup
    THEN LET u == Update([s EXCEPT !.self.status = "Picked up"], "update_pickup", world)
         IN  IF u.state = "failed" THEN u ELSE [u EXCEPT !.state = "returned"]
    ELSE s

\* a scan that takes every dated TRANSIT entry without comparing
RECURSIVE LastTransit(_, _)
LastTransit(history, shipped_time) ==
    IF history = <<>> THEN shipped_time
    ELSE LET h == Head(history)
         IN  LastTransit(Tail(history),
                         IF h.status = "TRANSIT" /\ h.status_date # None
                         THEN h.status_date ELSE shipped_time)

\* lines 1106-1119: the earliest TRANSIT date of the history, if earlier
RECURSIVE EarliestTransit(_, _)
EarliestTransit(history, shipped_time) ==
    IF history = <<>> THEN shipped_time
    ELSE LET h == Head(history)
             current_shipped_time == IF shipped_time # None THEN shipped_time[1] ELSE Now
             next == IF h.status = "TRANSIT" /\ h.status_date # None
                        /\ h.status_date[1] < current_shipped_time
                     THEN h.status_date
                     ELSE shipped_time
         IN  EarliestTransit(Tail(history), next)

\* a poll that leaves the status and the times alone
IgnoreTrackingStatus(s, tracking_status) == s

\* lines 1082-1104: the status, the notification and the times from the current status
ApplyTrackingStatus(s, tracking_status) ==
    LET transit == tracking_status.status = "TRANSIT" \/ tracking_status.status = "IN_TRANSIT"
        notify == transit /\ s.self.status # "Shipped"
        s1 == IF notify
              THEN [Call(s, "send_email_to_recipient") EXCEPT
                        !.self.shipped_time = tracking_status.status_date]
              ELSE s
        s2 == IF transit THEN [s1 EXCEPT !.self.status = "Shipped"] ELSE s1
        s3 == IF tracking_status.status = "DELIVERED"
              THEN [s2 EXCEPT !.self.status = "Delivered",
                              !.self.delivered_time = tracking_status.status_date]
              ELSE s2
        s4 == IF tracking_status.status = "RETURNED"
              THEN [s3 EXCEPT !.self.status = "Returned"] ELSE s3
    IN  IF tracking_status.status = "FAILURE"
        THEN [s4 EXCEPT !.self.status = "Failure"] ELSE s4

\* lines 1054-1121: the label lookup, the webhook and the status mapping
TrackingPoll(s, world) ==
         IF world.fail = "get_shipping_label" THEN Failed(s)
         ELSE LET label == GetShippingLabel(s.self.shippo_id)
                  a == [Call(s, "get_shipping_label") EXCEPT
                            !.self.tracking_number = label.tracking_number,
                            !.self.tracking_link = label.tracking_url_provider,
                            !.self.tracking_status = label.tracking_status,
                            !.self.label_link = label.label_url,
                            !.self.eta = label.eta,
                            !.self.shippo_id = label.object_id,
                            !.self.messages =
                                IF label.status # "SUCCESS" THEN label.messages ELSE @]
                  b == Call([a EXCEPT !.self.oxide_tracking_link = OxideTrackingLink(a.self)],
                            "register_tracking_webhook")
                  status == IF world.webhook_ok THEN world.tracking ELSE DefaultTracking
                  c == [b EXCEPT !.self.messages =
                                     IF @ = "" THEN status.status_details ELSE @]
                  d == ApplyTrackingStatus(c, status)
              IN  [d EXCEPT !.self.shipped_time = EarliestTransit(status.history, @)]

\* a pass that never looks at shippo_id
TrackingStageSkipped(s, world) == s

\* a tracking poll that does not end the pass
TrackingStageFallsThrough(s, world) ==
    IF s.state = "run" /\ s.self.shippo_id # "" THEN TrackingPoll(s, world) ELSE s

\* lines 1053-1123: a record with a shippo_id is polled and the pass returns
TrackingStage(s, world) ==
    IF s.state # "run" THEN s
    ELSE IF s.self.shippo_id # ""
    THEN LET t == TrackingPoll(s, world)
         IN  IF t.state = "failed" THEN t ELSE [t EXCEPT !.state = "returned"]
    ELSE s

\* a choice of rate that takes the last tagged rate of the response
LastTagged(rates, i) ==
    LET tagged == { k \in i..Len(rates) : "BESTVALUE" \in rates[k].attributes
                                             \/ "CHEAPEST" \in rates[k].attributes }
    IN  IF tagged = {} THEN 0 ELSE CHOOSE k \in tagged : \A j \in tagged : j <= k

\* lines 1219-1220: the first rate, in response order, tagged BESTVALUE or CHEAPEST
RECURSIVE FirstTagged(_, _)
FirstTagged(rates, i) ==
    IF i > Len(rates) THEN 0
    ELSE IF "BESTVALUE" \in rates[i].attributes \/ "CHEAPEST" \in rates[i].attributes THEN i
    ELSE FirstTagged(rates, i + 1)

\* print_label (lines 872-887): nothing is sent for a blank label link; a
\* response other than ACCEPTED panics
PrintLabel(s, world) ==
    IF s.self.label_link = "" THEN s
    ELSE IF world.fail = "print_label" THEN Failed(s)
    ELSE Call(s, "print_label")

\* lines 1233-1249: the fields set from the rate and the purchased label
LabelFields(self, rate, label) ==
    LET r == [ self EXCEPT
                 !.carrier = rate.provider,
                 !.cost = rate.amount_local,
                 !.tracking_number = label.tracking_number,
                 !.tracking_link = label.tracking_url_provider,
                 !.tracking_status = label.tracking_status,
                 !.label_link = label.label_url,
                 !.eta = label.eta,
                 !.shippo_id = label.object_id,
                 !.status = IF label.status # "SUCCESS" THEN label.status ELSE "Label created",
                 !.messages = IF label.status # "SUCCESS" THEN label.messages ELSE @ ]
    IN  [r EXCEPT !.oxide_tracking_link = OxideTrackingLink(r)]

\* a label-creating pass that a failed webhook registration ends
AfterPurchaseWebhookFatal(s, world) ==
    LET u == Update(s, "update_label", world)
        a == IF u.state = "failed" THEN u
             ELSE [u EXCEPT !.bought[Len(u.bought)].saved = TRUE]
        b == IF a.state = "failed" THEN a
             ELSE IF world.webhook_ok THEN Call(a, "register_tracking_webhook")
             ELSE Failed(Call(a, "register_tracking_webhook"))
        c == IF b.state = "failed" THEN b ELSE PrintLabel(b, world)
    IN  IF c.state = "failed" THEN c
        ELSE Call([c EXCEPT !.self.status = "Label printed"], "send_email_internally")

\* lines 1251-1267: checkpoint, webhook, print, status, internal notification
AfterPurchase(s, world) ==
    LET u == Update(s, "update_label", world)
        a == IF u.state = "failed" THEN u
             ELSE [u EXCEPT !.bought[Len(u.bought)].saved = TRUE]
        b == IF a.state = "failed" THEN a ELSE Call(a, "register_tracking_webhook")
        c == IF b.state = "failed" THEN b ELSE PrintLabel(b, world)
    IN  IF c.state = "failed" THEN c
        ELSE Call([c EXCEPT !.self.status = "Label printed"], "send_email_internally")

\* lines 1128-1170: the customs declaration with one item per line of the
\* contents, decided on the country as the record holds it, and then the country
\* names the carrier wants as codes. A customs item the carrier refuses is a panic.
CustomsStage(s, world) ==
    LET country == CASE s.self.country = "Great Britain" -> "GB"
                     [] s.self.country = "United States" -> "US"
                     [] OTHER -> s.self.country
        items == [k \in 1..Len(s.self.contents) |-> "create_customs_item"]
    IN  IF s.self.country = "US"
        THEN [s EXCEPT !.self.country = country,
                       !.request = Some([country |-> country, customs_declaration |-> None])]
        ELSE IF world.fail = "create_customs_item" /\ Len(items) > 0 THEN Failed(s)
        ELSE [s EXCEPT !.calls = @ \o items,
                       !.self.country = country,
                       !.request = Some([ country |-> country,
                                          customs_declaration |->
                                              Some([items |-> Len(items)]) ])]

\* lines 1125-1273
CreateLabelStage(id, s, world) ==
    IF s.state # "run" THEN s
    ELSE IF CustomsStage(s, world).state = "failed" THEN CustomsStage(s, world)
    ELSE IF world.fail = "create_shipment" THEN Failed(CustomsStage(s, world))
    ELSE LET a == Call(CustomsStage(s, world), "create_shipment")
             i == FirstTagged(world.rates, 1)
         IN  IF i = 0 THEN [a EXCEPT !.state = "returned"]
             ELSE IF world.fail = "create_label" THEN Failed(a)
             ELSE LET n == Len(a.bought) + 1
                      label == Transaction(n, world.label_ok)
                      b == [Call(a, "create_shipping_label_from_rate") EXCEPT
                                !.bought = Append(@, [ok |-> world.label_ok, row |-> id,
                                                      saved |-> FALSE])]
                  IN  IF world.fail = "parse_amount" THEN Failed(b)
                      ELSE LET c == AfterPurchase(
                                        [b EXCEPT !.self = LabelFields(@, world.rates[i], label)],
                                        world)
                           IN  IF c.state = "failed" THEN c ELSE [c EXCEPT !.state = "returned"]

\* create_or_get_shippo_shipment on a row, then the caller's update (lines
\* 1404-1406 and 1423-1425); a panic skips the caller's update
Reconcile(id, shipment, bought, world) ==
    LET s0 == [ self |-> shipment, saved |-> shipment, bought |-> bought,
                calls |-> <<>>, state |-> "run", request |-> None ]
        s4 == CreateLabelStage(id, TrackingStage(LocalPickupStage(GeocodeStage(s0, world), world),
                                                 world), world)
    IN  IF s4.state = "failed" THEN s4 ELSE Update(s4, "final_update", world)

(***************************************************************************)
(* FieldMerge: update_airtable_record(&mut self, record). self is the      *)
(* record being written (incoming), record the one already in the mirror   *)
(* (existing); the result is self after the call.                          *)
(***************************************************************************)
\* a merge that fills no gap
UpdateOutboundKeepsSelf(self, record) == self

\* a merge that adds the mirror's cost to its own
UpdateOutboundSumsCost(self, record) == [self EXCEPT !.cost = @ + record.cost]

\* a merge in which the mirror's record wins outright
UpdateInboundTakesRecord(self, record) == record

\* UpdateAirtableRecord<OutboundShipment> (lines 805-852)
UpdateOutbound(self, record) ==
    [ self EXCEPT
        !.link_to_package_pickup = record.link_to_package_pickup,
        !.geocode_cache = record.geocode_cache,
        !.status = IF @ = "" THEN record.status ELSE @,
        !.carrier = IF @ = "" THEN record.carrier ELSE @,
        !.tracking_number = IF @ = "" THEN record.tracking_number ELSE @,
        !.tracking_link = IF @ = "" THEN record.tracking_link ELSE @,
        !.tracking_status = IF @ = "" THEN record.tracking_status ELSE @,
        !.label_link = IF @ = "" THEN record.label_link ELSE @,
        !.pickup_date = IF @ = None THEN record.pickup_date ELSE @,
        !.shipped_time = IF @ = None THEN record.shipped_time ELSE @,
        !.delivered_time = IF @ = None THEN record.delivered_time ELSE @,
        !.shippo_id = IF @ = "" THEN record.shippo_id ELSE @,
        !.eta = IF @ = None THEN record.eta ELSE @,
        !.cost = IF @ = 0 THEN record.cost ELSE @,
        !.notes = IF @ = "" THEN record.notes ELSE @ ]

\* UpdateAirtableRecord<InboundShipment> (lines 68-96)
UpdateInbound(self, record) ==
    [ self EXCEPT
        !.carrier = IF @ = "" THEN record.carrier ELSE @,
        !.tracking_number = IF @ = "" THEN record.tracking_number ELSE @,
        !.tracking_link = IF @ = "" THEN record.tracking_link ELSE @,
        !.tracking_status = IF @ = "" THEN record.tracking_status ELSE @,
        !.shipped_time = IF @ = None THEN record.shipped_time ELSE @,
        !.delivered_time = IF @ = None THEN record.delivered_time ELSE @,
        !.eta = IF @ = None THEN record.eta ELSE @,
        !.notes = IF @ = "" THEN record.notes ELSE @ ]

\* the fields of the two structs by type
OptionFields == {"pickup_date", "shipped_time", "delivered_time", "eta"}
NumberFields == {"cost", "latitude", "longitude", "created_time"}
FlagFields == {"local_pickup"}
ListFields == {"link_to_package_pickup"}

\* three values of a field's type: the type's empty value (entry 1) and two others
Values(f) ==
    CASE f \in OptionFields -> <<None, Some(1), Some(2)>>
      [] f \in NumberFields -> <<0, 5, 7>>
      [] f \in FlagFields -> <<FALSE, TRUE, TRUE>>
      [] f \in ListFields -> <<<<>>, <<"rec1">>, <<"rec2">>>>
      [] OTHER -> <<"", "a", "b">>

\* the records whose fields all hold their type's k-th value, but for field f
\* holding its v-th
Sample(shape, k, f, v) ==
    [ g \in DOMAIN shape |-> IF g = f THEN Values(g)[v] ELSE Values(g)[k] ]

\* pairs (self, record) that differ from uniform records in one field
MergePairs(shape) ==
    { << Sample(shape, k1, f, v1), Sample(shape, k2, f, v2) >> :
        k1 \in 1..3, k2 \in 1..3, v1 \in 1..3, v2 \in 1..3, f \in DOMAIN shape }

(***************************************************************************)
(* State machine.                                                          *)
(***************************************************************************)
\* answers is what the outside world did during a recorded loop body, request
\* the pickup request create_pickup sent
Idle ==
    [ op |-> "none", row |-> 0, shippo_id |-> "", local_pickup |-> FALSE,
      calls |-> <<>>, state |-> "run", report |-> DefaultTracking, answers |-> NoAnswers,
      request |-> None ]

\* what a loop body started from (the record handed to the pass) and what it did
Ran(op, row, shipment, s) ==
    [ op |-> op, row |-> row, shippo_id |-> shipment.shippo_id,
      local_pickup |-> shipment.local_pickup,
      calls |-> s.calls, state |-> s.state, report |-> DefaultTracking,
      answers |-> NoAnswers, request |-> s.request ]

BlankInbound ==
    [ carrier |-> "", tracking_number |-> "", tracking_link |-> "", oxide_tracking_link |-> "",
      tracking_status |-> "", shipped_time |-> None, delivered_time |-> None, eta |-> None,
      messages |-> "", name |-> "", notes |-> "" ]

\* the two runs of refresh_outbound_shipments that may be active at once (the
\* scheduled run and a run started from the tracking webhook)
Runs == {1, 2}
NoPasses == [p \in Runs |-> None]

\* get_next_business_day has not been called
NoWindow == [now |-> 0, result |-> None]

\* the "on the way" notifications a pass sent
Sent(s) == Cardinality({ k \in 1..Len(s.calls) : s.calls[k] = "send_email_to_recipient" })

Init ==
    /\ db = <<>>
    /\ labels = <<>>
    /\ mails = <<>>
    /\ pickups = <<>>
    /\ spreadsheet = None
    /\ signup = None
    /\ fetch = None
    /\ inflight = NoPasses
    /\ window = NoWindow
    /\ last = Idle
    /\ inbound = BlankInbound
    /\ incoming = DefaultShipment(FormResponse("a@x.com", "Ann"))
    /\ existing = incoming
    /\ merged = incoming

\* lines 1397-1407: the candidate of a parsed row, skipped when the row is
\* marked sent, otherwise upserted, reconciled and updated
RowBody(row, sent, world) ==
    \E found \in {0} \cup 1..Len(db) :
        /\ found = 0 <=> \A i \in 1..Len(db) : NaturalKey(db[i]) # NaturalKey(row)
        /\ found # 0 => NaturalKey(db[found]) = NaturalKey(row)
        /\ LET parsed == ParseFromRowWithColumns(db, row, found) IN
           IF sent
           THEN /\ last' = [Idle EXCEPT !.op = "skip"]
                /\ UNCHANGED <<db, labels, mails>>
           ELSE LET shipment == [parsed EXCEPT !.notes = SheetNote] IN
                \E target \in {0} \cup 1..Len(db) :
                    /\ target = 0 <=> Matching(db, shipment) = {}
                    /\ target # 0 => target \in Matching(db, shipment)
                    /\ target = 0 => Len(db) < MaxRows
                    /\ LET id == IF target = 0 THEN Len(db) + 1 ELSE target
                           upserted == Upsert(db, shipment, target)
                           s == Reconcile(id, upserted[id], labels, world)
                           counted == IF target = 0 THEN Append(mails, 0) ELSE mails
                       IN  /\ Len(s.bought) <= MaxLabels
                           /\ counted[id] + Sent(s) <= MaxMails
                           /\ db' = [upserted EXCEPT ![id] = s.saved]
                           /\ labels' = s.bought
                           /\ mails' = [counted EXCEPT ![id] = @ + Sent(s)]
                           /\ last' = Ran("intake", id, upserted[id], s)

\* the body of the row loop of refresh_outbound_shipments (lines 1397-1407)
IntakeRow(row, sent, world) ==
    /\ RowBody(row, sent, world)
    /\ UNCHANGED <<inbound, incoming, existing, merged, pickups, inflight, window,
                 spreadsheet, signup, fetch>>

\* the body of the table loop of refresh_outbound_shipments (lines 1416-1426)
ReconcileRow(id, world) ==
    /\ id \in 1..Len(db)
    /\ \E s \in { Reconcile(id, db[id], labels, world) } :
           /\ Len(s.bought) <= MaxLabels
           /\ mails[id] + Sent(s) <= MaxMails
           /\ db' = [db EXCEPT ![id] = s.saved]
           /\ labels' = s.bought
           /\ mails' = [mails EXCEPT ![id] = @ + Sent(s)]
           /\ last' = Ran("reconcile", id, db[id], s)
    /\ UNCHANGED <<inbound, incoming, existing, merged, pickups, inflight, window,
                 spreadsheet, signup, fetch>>

\* a person ticks or clears "local pickup" on the mirror record of a row
EditLocalPickup(id) ==
    /\ id \in 1..Len(db)
    /\ db' = [db EXCEPT ![id].local_pickup = ~@]
    /\ last' = [Idle EXCEPT !.op = "edit", !.row = id]
    /\ UNCHANGED <<labels, mails, inbound, incoming, existing, merged, pickups, inflight, window,
                 spreadsheet, signup, fetch>>

\* the body of the table loop (lines 1416-1426) on a row that has its label,
\* keeping what the carrier reported; the last pass of a behaviour
PollRow(id, world) ==
    /\ id \in 1..Len(db)
    /\ db[id].shippo_id # ""
    /\ last.op # "poll"
    /\ \E s \in { Reconcile(id, db[id], labels, world) } :
           /\ mails[id] + Sent(s) <= MaxMails
           /\ db' = [db EXCEPT ![id] = s.saved]
           /\ labels' = s.bought
           /\ mails' = [mails EXCEPT ![id] = @ + Sent(s)]
           /\ last' = [Ran("poll", id, db[id], s) EXCEPT
                          !.report = IF world.webhook_ok THEN world.tracking
                                     ELSE DefaultTracking]
    /\ UNCHANGED <<inbound, incoming, existing, merged, pickups, inflight, window,
                 spreadsheet, signup, fetch>>

\* the body of the table loop (lines 1416-1426) on any row, keeping what the
\* outside world did; the last pass of a behaviour
PassRow(id, world) ==
    /\ id \in 1..Len(db)
    /\ last.op # "pass"
    /\ \E s \in { Reconcile(id, db[id], labels, world) } :
           /\ Len(s.bought) <= MaxLabels
           /\ mails[id] + Sent(s) <= MaxMails
           /\ db' = [db EXCEPT ![id] = s.saved]
           /\ labels' = s.bought
           /\ mails' = [mails EXCEPT ![id] = @ + Sent(s)]
           /\ last' = [Ran("pass", id, db[id], s) EXCEPT !.answers = world]
    /\ UNCHANGED <<inbound, incoming, existing, merged, pickups, inflight, window,
                 spreadsheet, signup, fetch>>

\* the table after the intake of one form response whose label was purchased
InitPoll ==
    LET s == Reconcile(1, DefaultShipment(FormResponse("a@x.com", "Ann")), <<>>,
                       [NoAnswers EXCEPT
                          !.rates = <<[provider |-> "USPS", amount_local |-> 5,
                                       attributes |-> {"BESTVALUE"}]>>])
    IN  /\ db = <<s.saved>>
        /\ labels = s.bought
        /\ mails = <<0>>
        /\ pickups = <<>>
        /\ spreadsheet = None
        /\ signup = None
        /\ fetch = None
        /\ inflight = NoPasses
        /\ window = NoWindow
        /\ last = Idle
        /\ inbound = BlankInbound
        /\ incoming = s.saved
        /\ existing = s.saved
        /\ merged = s.saved

NextPoll ==
    \/ \E id \in 1..MaxRows, world \in ScanWorlds : PollRow(id, world)
    \/ \E id \in 1..MaxRows, world \in TrackingWorlds :
          last.op # "poll" /\ ReconcileRow(id, world)

\* tracking polls of one labelled row
SpecPoll == InitPoll /\ [][NextPoll]_vars

(***************************************************************************)
(* The table loop as one run, and the pickup batch.                        *)
(***************************************************************************)
\* lines 1416-1426 over the whole table, row by row: a panic in one pass ends
\* the run. reached is the last row whose pass was started.
RECURSIVE TableLoop(_, _, _, _, _)
TableLoop(i, rows, bought, sent, worlds) ==
    IF i > Len(rows)
    THEN [ rows |-> rows, bought |-> bought, sent |-> sent,
           reached |-> Len(rows), state |-> "returned" ]
    ELSE CHOOSE r \in
            { IF s.state = "failed"
              THEN [ rows |-> [rows EXCEPT ![i] = s.saved], bought |-> s.bought,
                     sent |-> [sent EXCEPT ![i] = @ + Sent(s)],
                     reached |-> i, state |-> "failed" ]
              ELSE TableLoop(i + 1, [rows EXCEPT ![i] = s.saved], s.bought,
                             [sent EXCEPT ![i] = @ + Sent(s)], worlds) :
                s \in { Reconcile(i, rows[i], bought, worlds[i]) } } : TRUE

\* what the carrier does during one run over the table
BatchWorlds ==
    { NoAnswers, [NoAnswers EXCEPT !.fail = "get_shipping_label"] }
    \cup { [NoAnswers EXCEPT !.tracking = [DefaultTracking EXCEPT !.status = "TRANSIT",
                                                                 !.status_date = Some(1)]] }

RefreshTable(worlds) ==
    /\ Len(db) > 0
    /\ \E r \in { TableLoop(1, db, labels, mails, worlds) } :
           /\ \A i \in 1..Len(db) : r.sent[i] <= MaxMails
           /\ Len(r.bought) <= MaxLabels
           /\ db' = r.rows
           /\ labels' = r.bought
           /\ mails' = r.sent
           /\ last' = [Idle EXCEPT !.op = "batch", !.row = r.reached, !.state = r.state]
    /\ UNCHANGED <<inbound, incoming, existing, merged, pickups, inflight, window,
                 spreadsheet, signup, fetch>>

\* days on which create_pickup runs: one before a weekday, one before a
\* Saturday and one before a Sunday
Weekdays == {"Thursday", "Friday", "Saturday"}

\* get_next_business_day (lines 481-500): tomorrow, or Monday when tomorrow is
\* a Saturday or a Sunday; the date of the window
GetNextBusinessDay(today) ==
    Now + (CASE today = "Friday" -> 3 [] today = "Saturday" -> 2 [] OTHER -> 1)

\* lines 355-363: the ids of the rows with status "Label printed", carrier
\* "USPS" and no pickup date, in table order
RECURSIVE SelectedFrom(_, _)
SelectedFrom(rows, i) ==
    IF i > Len(rows) THEN <<>>
    ELSE IF rows[i].status = "Label printed" /\ rows[i].carrier = "USPS"
            /\ rows[i].pickup_date = None
    THEN <<i>> \o SelectedFrom(rows, i + 1)
    ELSE SelectedFrom(rows, i + 1)

\* a selection that takes every row without a pickup date
SelectedAnyStatus(rows) ==
    LET RECURSIVE From(_)
        From(i) == IF i > Len(rows) THEN <<>>
                   ELSE IF rows[i].pickup_date = None THEN <<i>> \o From(i + 1)
                   ELSE From(i + 1)
    IN  From(1)

Selected(rows) == SelectedFrom(rows, 1)

\* a lookup that takes the account spelled "USPS"
UspsAccountExact(accounts) ==
    LET named == { k \in 1..Len(accounts) : accounts[k].carrier = "USPS" }
    IN  IF named = {} THEN "" ELSE accounts[CHOOSE k \in named : \A j \in named : k <= j].object_id

\* lines 387-395: the object id of the first carrier account of USPS
RECURSIVE UspsAccount(_)
UspsAccount(accounts) ==
    IF accounts = <<>> THEN ""
    ELSE IF ToLowercase(Head(accounts).carrier) = "usps" THEN Head(accounts).object_id
    ELSE UspsAccount(Tail(accounts))

CarrierAccounts ==
    { <<>>,
      <<[carrier |-> "UPS", object_id |-> "acct0"]>>,
      <<[carrier |-> "USPS", object_id |-> "acct1"]>>,
      <<[carrier |-> "UPS", object_id |-> "acct0"], [carrier |-> "usps", object_id |-> "acct1"],
        [carrier |-> "USPS", object_id |-> "acct2"]>> }

\* what the outside world does during create_pickup: the call that fails, if
\* any ("update" fails on the at-th selected shipment), the carrier accounts
\* and the day of the week
PickupWorlds ==
    { [fail |-> f, at |-> k, accounts |-> a, today |-> d] :
        f \in {"none", "list_carrier_accounts", "create_pickup", "upsert"},
        k \in {1}, a \in CarrierAccounts, d \in Weekdays }
    \cup
    { [fail |-> "update", at |-> k, accounts |-> a, today |-> d] :
        k \in 1..MaxRows, a \in { c \in CarrierAccounts : UspsAccount(c) # "" },
        d \in Weekdays }

\* lines 408-421: the request create_pickup sends to the carrier
NewPickup(rows, world) ==
    [ carrier_account |-> UspsAccount(world.accounts),
      transactions |-> [j \in 1..Len(Selected(rows)) |-> rows[Selected(rows)[j]].shippo_id],
      requested_start_time |-> GetNextBusinessDay(world.today) ]

\* lines 427-451: the PackagePickup row, then the pickup date of each selected
\* shipment, one update at a time
AfterRequest(rows, pk, world) ==
    LET selected == Selected(rows)
        pickup_date == GetNextBusinessDay(world.today)
        np == [ shippo_id |-> "P" \o ToString(Len(pk) + 1), carrier |-> "USPS",
                transactions |-> [j \in 1..Len(selected) |-> rows[selected[j]].shippo_id],
                link_to_outbound_shipments |-> selected,
                requested_start_time |-> pickup_date ]
        calls == <<"list_carrier_accounts", "create_pickup">>
        stop == IF world.fail = "update" /\ world.at <= Len(selected)
                THEN world.at ELSE Len(selected) + 1
        stamped == { selected[j] : j \in 1..(stop - 1) }
    IN  IF world.fail = "upsert"
        THEN [ rows |-> rows, pickups |-> pk, calls |-> calls, state |-> "failed",
               request |-> Some(NewPickup(rows, world)) ]
        ELSE [ rows |-> [ i \in 1..Len(rows) |->
                            IF i \in stamped
                            THEN [rows[i] EXCEPT !.pickup_date = Some(pickup_date)]
                            ELSE rows[i] ],
               pickups |-> Append(pk, np),
               calls |-> calls \o <<"upsert">> \o [j \in 1..(stop - 1) |-> "update"],
               state |-> IF stop <= Len(selected) THEN "failed" ELSE "returned",
               request |-> Some(NewPickup(rows, world)) ]

\* a pickup that is recorded and stamped before the carrier answers the request
SubmitStampsBeforeRequest(rows, pk, world) ==
    IF world.fail = "list_carrier_accounts"
    THEN [ rows |-> rows, pickups |-> pk, calls |-> <<>>, state |-> "failed",
           request |-> None ]
    ELSE IF UspsAccount(world.accounts) = ""
    THEN [ rows |-> rows, pickups |-> pk, calls |-> <<"list_carrier_accounts">>,
           state |-> "returned", request |-> None ]
    ELSE IF world.fail = "create_pickup"
    THEN [ AfterRequest(rows, pk, [world EXCEPT !.fail = "none"]) EXCEPT
             !.calls = <<"list_carrier_accounts">>, !.state = "failed" ]
    ELSE AfterRequest(rows, pk, world)

\* lines 384-451: the carrier account, the request and what follows it
Submit(rows, pk, world) ==
    IF world.fail = "list_carrier_accounts"
    THEN [ rows |-> rows, pickups |-> pk, calls |-> <<>>, state |-> "failed",
           request |-> None ]
    ELSE IF UspsAccount(world.accounts) = ""
    THEN [ rows |-> rows, pickups |-> pk, calls |-> <<"list_carrier_accounts">>,
           state |-> "returned", request |-> None ]
    ELSE IF world.fail = "create_pickup"
    THEN [ rows |-> rows, pickups |-> pk, calls |-> <<"list_carrier_accounts">>,
           state |-> "failed", request |-> Some(NewPickup(rows, world)) ]
    ELSE AfterRequest(rows, pk, world)

\* a pickup that is requested whatever the selection
CreatePickupAlwaysSubmits(rows, pk, world) == Submit(rows, pk, world)

\* OutboundShipments::create_pickup (lines 353-452)
CreatePickupRun(rows, pk, world) ==
    IF Selected(rows) = <<>>
    THEN [ rows |-> rows, pickups |-> pk, calls |-> <<>>, state |-> "returned",
           request |-> None ]
    ELSE Submit(rows, pk, world)

CreatePickup(world) ==
    /\ \E r \in { CreatePickupRun(db, pickups, world) } :
           /\ Len(r.pickups) <= MaxPickups
           /\ db' = r.rows
           /\ pickups' = r.pickups
           /\ last' = [Idle EXCEPT !.op = "pickup", !.calls = r.calls, !.state = r.state,
                                   !.answers = world, !.request = r.request]
    /\ UNCHANGED <<labels, mails, inbound, incoming, existing, merged, inflight, window,
                 spreadsheet, signup, fetch>>

\* the table after the intake of two form responses whose labels were purchased
InitTable ==
    LET bought == [NoAnswers EXCEPT
                      !.rates = <<[provider |-> "USPS", amount_local |-> 5,
                                   attributes |-> {"BESTVALUE"}]>>]
        s1 == Reconcile(1, DefaultShipment(FormResponse("a@x.com", "Ann")), <<>>, bought)
        s2 == Reconcile(2, DefaultShipment(FormResponse("b@x.com", "Bob")), s1.bought, bought)
    IN  /\ db = <<s1.saved, s2.saved>>
        /\ labels = s2.bought
        /\ mails = <<0, 0>>
        /\ pickups = <<>>
        /\ spreadsheet = None
        /\ signup = None
        /\ fetch = None
        /\ inflight = NoPasses
        /\ window = NoWindow
        /\ last = Idle
        /\ inbound = BlankInbound
        /\ incoming = s1.saved
        /\ existing = s1.saved
        /\ merged = s1.saved

NextTable ==
    \/ \E worlds \in [1..Len(db) -> BatchWorlds] : RefreshTable(worlds)
    \/ \E world \in PickupWorlds : CreatePickup(world)

\* runs over a table of labelled rows, and pickup batches
SpecTable == InitTable /\ [][NextTable]_vars

(***************************************************************************)
(* Two runs of refresh_outbound_shipments at once. A run loads the rows    *)
(* (get_from_db, line 1416) and reconciles each from the copy it loaded;   *)
(* nothing in the run takes a lock or checks that the row is still as it   *)
(* was loaded.                                                             *)
(***************************************************************************)
\* line 1416: run p holds a copy of row id
LoadRow(p, id) ==
    /\ id \in 1..Len(db)
    /\ inflight[p] = None
    /\ inflight' = [inflight EXCEPT ![p] = Some([row |-> id, shipment |-> db[id]])]
    /\ last' = [Idle EXCEPT !.op = "load", !.row = id]
    /\ UNCHANGED <<db, labels, mails, inbound, incoming, existing, merged, pickups, window,
                 spreadsheet, signup, fetch>>

\* lines 1417-1425: run p reconciles the copy it holds and writes it back
PassLoaded(p, world) ==
    /\ inflight[p] # None
    /\ \E s \in { Reconcile(inflight[p][1].row, inflight[p][1].shipment, labels, world) } :
           /\ Len(s.bought) <= MaxLabels
           /\ mails[inflight[p][1].row] + Sent(s) <= MaxMails
           /\ db' = [db EXCEPT ![inflight[p][1].row] = s.saved]
           /\ labels' = s.bought
           /\ mails' = [mails EXCEPT ![inflight[p][1].row] = @ + Sent(s)]
           /\ last' = Ran("reconcile", inflight[p][1].row, inflight[p][1].shipment, s)
    /\ inflight' = [inflight EXCEPT ![p] = None]
    /\ UNCHANGED <<inbound, incoming, existing, merged, pickups, window,
                 spreadsheet, signup, fetch>>

\* the table after the intake of two form responses for which the carrier
\* offered no rate to buy
InitRace ==
    LET s1 == Reconcile(1, DefaultShipment(FormResponse("a@x.com", "Ann")), <<>>, NoAnswers)
        s2 == Reconcile(2, DefaultShipment(FormResponse("b@x.com", "Bob")), <<>>, NoAnswers)
    IN  /\ db = <<s1.saved, s2.saved>>
        /\ labels = <<>>
        /\ mails = <<0, 0>>
        /\ pickups = <<>>
        /\ spreadsheet = None
        /\ signup = None
        /\ fetch = None
        /\ inflight = NoPasses
        /\ window = NoWindow
        /\ last = Idle
        /\ inbound = BlankInbound
        /\ incoming = s1.saved
        /\ existing = s1.saved
        /\ merged = s1.saved

NextRace ==
    \/ \E p \in Runs, id \in 1..MaxRows : LoadRow(p, id)
    \/ \E p \in Runs, world \in QuietWorlds : PassLoaded(p, world)

\* two runs over two rows, every call answered
SpecRace == InitRace /\ [][NextRace]_vars

(***************************************************************************)
(* get_next_business_day on its own. An instant is a day number, day 0     *)
(* being Thursday 1 January 1970, and the seconds into that day; it is in  *)
(* UTC unless it is called local.                                          *)
(***************************************************************************)
\* hours US/Pacific is behind UTC (standard time)
PacificOffset == 8
DaySeconds == 24 * 3600

\* DateTime::with_timezone(&chrono_tz::US::Pacific)
WithTimezonePacific(t) ==
    IF t.secs >= PacificOffset * 3600
    THEN [day |-> t.day, secs |-> t.secs - PacificOffset * 3600]
    ELSE [day |-> t.day - 1, secs |-> t.secs + DaySeconds - PacificOffset * 3600]

\* DateTime::with_timezone(&Utc) on a local instant
WithTimezoneUtc(t) ==
    IF t.secs + PacificOffset * 3600 < DaySeconds
    THEN [day |-> t.day, secs |-> t.secs + PacificOffset * 3600]
    ELSE [day |-> t.day + 1, secs |-> t.secs + PacificOffset * 3600 - DaySeconds]

\* format("%A")
DayName(day) ==
    <<"Thursday", "Friday", "Saturday", "Sunday", "Monday", "Tuesday", "Wednesday">>[(day % 7) + 1]

\* checked_add_signed(Duration::days(n))
AddDays(t, n) == [t EXCEPT !.day = @ + n]

\* NaiveTime::from_hms
FromHms(h, m, s) == h * 3600 + m * 60 + s

\* a window that is moved for a Saturday only
WindowMovedForSaturdayOnly(now) ==
    LET pacific_time == WithTimezonePacific(now)
        tomorrow == AddDays(pacific_time, 1)
        next_day == IF DayName(tomorrow.day) = "Saturday" THEN AddDays(pacific_time, 3)
                    ELSE tomorrow
    IN  [ start_time |-> WithTimezoneUtc([day |-> next_day.day, secs |-> FromHms(8, 59, 59)]),
          end_time |-> WithTimezoneUtc([day |-> next_day.day, secs |-> FromHms(16, 59, 59)]) ]

\* get_next_business_day (lines 481-500), start and end of the window in UTC
NextBusinessDayWindow(now) ==
    LET pacific_time == WithTimezonePacific(now)
        tomorrow == AddDays(pacific_time, 1)
        day_of_week_string == DayName(tomorrow.day)
        next_day == IF day_of_week_string = "Saturday" THEN AddDays(pacific_time, 3)
                    ELSE IF day_of_week_string = "Sunday" THEN AddDays(pacific_time, 2)
                    ELSE tomorrow
    IN  [ start_time |-> WithTimezoneUtc([day |-> next_day.day, secs |-> FromHms(8, 59, 59)]),
          end_time |-> WithTimezoneUtc([day |-> next_day.day, secs |-> FromHms(16, 59, 59)]) ]

\* Utc::now(): two weeks of days, at times of day on either side of the local
\* midnight and of the window
ClockInstants ==
    { [day |-> d, secs |-> s] :
        d \in 1..MaxDays,
        s \in { 0, FromHms(7, 59, 59), FromHms(8, 0, 0), FromHms(17, 30, 0) } }

CallGetNextBusinessDay ==
    /\ window.result = None
    /\ window' = [window EXCEPT !.result = Some(NextBusinessDayWindow(window.now))]
    /\ last' = [Idle EXCEPT !.op = "window"]
    /\ UNCHANGED <<db, labels, mails, inbound, incoming, existing, merged, pickups, inflight,
                 spreadsheet, signup, fetch>>

InitWindow ==
    /\ db = <<>>
    /\ labels = <<>>
    /\ mails = <<>>
    /\ last = Idle
    /\ inbound = BlankInbound
    /\ incoming = BlankInbound
    /\ existing = BlankInbound
    /\ merged = BlankInbound
    /\ pickups = <<>>
    /\ spreadsheet = None
    /\ signup = None
    /\ fetch = None
    /\ inflight = NoPasses
    /\ \E now \in ClockInstants : window = [now |-> now, result |-> None]

NextWindow == CallGetNextBusinessDay

\* get_next_business_day called at any instant
SpecWindow == InitWindow /\ [][NextWindow]_vars

(***************************************************************************)
(* Inbound shipments: refresh_inbound_shipments over one mirror record.    *)
(***************************************************************************)
\* TrackingResponse::default(), what a failed get_tracking_status is replaced by
DefaultTrackingResponse ==
    [ tracking_number |-> "", tracking_status |-> None, eta |-> None, tracking_history |-> <<>> ]

\* what get_tracking_status does: ok = FALSE is an error or a timeout
InboundAnswers ==
    { [ok |-> TRUE, tracking_status |-> st, eta |-> e, tracking_history |-> h] :
        st \in {None}
                 \cup { Some([DefaultTracking EXCEPT !.status = "UNKNOWN"]) }
                 \cup { Some([DefaultTracking EXCEPT !.status = "TRANSIT",
                                                     !.status_date = Some(1),
                                                     !.status_details = "on its way"]) }
                 \cup { Some([DefaultTracking EXCEPT !.status = "DELIVERED",
                                                     !.status_date = d,
                                                     !.status_details = "left at door"]) :
                            d \in {None, Some(MaxTime)} },
        e \in {None, Some(MaxTime)},
        h \in SeqsUpTo({ [status |-> "TRANSIT", status_date |-> Some(d)] : d \in Times },
                       MaxHist) }
    \cup { [ok |-> FALSE, tracking_status |-> None, eta |-> None, tracking_history |-> <<>>] }

\* NewInboundShipment::expand (lines 120-159); the carrier echoes the tracking
\* number it was asked about
Expand(self, answer) ==
    LET ts == IF answer.ok
              THEN [ tracking_number |-> self.tracking_number,
                     tracking_status |-> answer.tracking_status,
                     eta |-> answer.eta, tracking_history |-> answer.tracking_history ]
              ELSE DefaultTrackingResponse
        status == IF ts.tracking_status = None THEN DefaultTracking ELSE ts.tracking_status[1]
        a == [self EXCEPT !.tracking_number = ts.tracking_number,
                          !.tracking_status = status.status]
        b == [a EXCEPT !.tracking_link = TrackingLink(a), !.eta = ts.eta]
        c == [b EXCEPT !.oxide_tracking_link = OxideTrackingLink(b),
                       !.messages = status.status_details]
        d == [c EXCEPT !.shipped_time = EarliestTransit(ts.tracking_history, @)]
    IN  IF status.status = "DELIVERED"
        THEN [d EXCEPT !.delivered_time = status.status_date] ELSE d

\* records as they are entered in the mirror
InboundMirrors ==
    { [BlankInbound EXCEPT !.carrier = c, !.tracking_number = n, !.name = "box"] :
        c \in {"USPS", "DHL", "Pigeon", ""}, n \in {"IN1", ""} }

\* the loop body of refresh_inbound_shipments (lines 1438-1463): the record is
\* expanded, upserted under its match_on values and written back to the mirror
\* through update_airtable_record
InboundRow(answer) ==
    /\ IF inbound.carrier = "" \/ inbound.tracking_number = ""
       THEN /\ last' = [Idle EXCEPT !.op = "skip"]
            /\ UNCHANGED <<inbound, incoming, existing, merged>>
       ELSE /\ existing' = inbound
            /\ incoming' = Expand(inbound, answer)
            /\ merged' = UpdateInbound(incoming', inbound)
            /\ inbound' = merged'
            /\ last' = [Idle EXCEPT !.op = IF answer.ok THEN "expand" ELSE "expand_default",
                                    !.calls = <<"get_tracking_status">>,
                                    !.state = "returned"]
    /\ UNCHANGED <<db, labels, mails, pickups, inflight, window,
                 spreadsheet, signup, fetch>>

InitInbound ==
    /\ db = <<>>
    /\ labels = <<>>
    /\ mails = <<>>
    /\ pickups = <<>>
    /\ spreadsheet = None
    /\ signup = None
    /\ fetch = None
    /\ inflight = NoPasses
    /\ window = NoWindow
    /\ last = Idle
    /\ inbound \in InboundMirrors
    /\ incoming = inbound
    /\ existing = inbound
    /\ merged = inbound

NextInbound == \E answer \in InboundAnswers : InboundRow(answer)

\* inbound refreshes of one mirror record
SpecInbound == InitInbound /\ [][NextInbound]_vars

\* update_airtable_record on an outbound pair
MergeOutbound ==
    /\ last.op = "none"
    /\ "email" \in DOMAIN incoming
    /\ merged' = UpdateOutbound(incoming, existing)
    /\ last' = [Idle EXCEPT !.op = "merge"]
    /\ UNCHANGED <<db, labels, mails, inbound, incoming, existing, pickups, inflight, window,
                 spreadsheet, signup, fetch>>

\* update_airtable_record on an inbound pair
MergeInbound ==
    /\ last.op = "none"
    /\ "email" \notin DOMAIN incoming
    /\ merged' = UpdateInbound(incoming, existing)
    /\ last' = [Idle EXCEPT !.op = "merge"]
    /\ UNCHANGED <<db, labels, mails, inbound, incoming, existing, pickups, inflight, window,
                 spreadsheet, signup, fetch>>

\* update_airtable_record once more, against the record the first merge wrote
RemergeOutbound ==
    /\ last.op = "merge"
    /\ "email" \in DOMAIN incoming
    /\ merged' = UpdateOutbound(incoming, merged)
    /\ last' = [Idle EXCEPT !.op = "remerge"]
    /\ UNCHANGED <<db, labels, mails, inbound, incoming, existing, pickups, inflight, window,
                 spreadsheet, signup, fetch>>

RemergeInbound ==
    /\ last.op = "merge"
    /\ "email" \notin DOMAIN incoming
    /\ merged' = UpdateInbound(incoming, merged)
    /\ last' = [Idle EXCEPT !.op = "remerge"]
    /\ UNCHANGED <<db, labels, mails, inbound, incoming, existing, pickups, inflight, window,
                 spreadsheet, signup, fetch>>

InitMerge ==
    /\ db = <<>>
    /\ labels = <<>>
    /\ mails = <<>>
    /\ pickups = <<>>
    /\ spreadsheet = None
    /\ signup = None
    /\ fetch = None
    /\ inflight = NoPasses
    /\ window = NoWindow
    /\ last = Idle
    /\ inbound = BlankInbound
    /\ \E pair \in MergePairs(DefaultShipment(FormResponse("a@x.com", "Ann")))
                      \cup MergePairs(BlankInbound) :
          /\ incoming = pair[1]
          /\ existing = pair[2]
          /\ merged = pair[1]

NextMerge == MergeOutbound \/ MergeInbound \/ RemergeOutbound \/ RemergeInbound

\* the field merge on its own, over pairs of records
SpecMerge == InitMerge /\ [][NextMerge]_vars

\* one run after another over a sheet, interrupted at any point
Refresh(sheet, worlds) ==
    \/ \E row \in sheet : IntakeRow(row, TRUE, NoAnswers)
    \/ \E row \in sheet, world \in worlds : IntakeRow(row, FALSE, world)
    \/ \E id \in 1..MaxRows, world \in worlds : ReconcileRow(id, world)
    \/ \E id \in 1..MaxRows : EditLocalPickup(id)

\* one shipment through its whole life: every call answered, every tracking answer
Next == Refresh(OneResponse, TrackingWorlds \cup PurchaseWorlds)

Spec == Init /\ [][Next]_vars

\* one shipment, a pass interrupted at any of its calls
NextCrash == Refresh(OneResponse, CrashWorlds)

SpecCrash == Init /\ [][NextCrash]_vars

\* a pass interrupted at any of its calls, the carrier offering one rate to buy
\* or none
ResumeWorlds ==
    { [NoAnswers EXCEPT !.fail = f, !.rates = r] :
        f \in FailPoints,
        r \in { <<>>, <<[provider |-> "USPS", amount_local |-> 5,
                         attributes |-> {"BESTVALUE"}]>> } }

NextResume == Refresh(OneResponse, ResumeWorlds)

\* interrupted passes, where the scheduled run comes back to every row with a
\* pass that no call interrupts
SpecResume ==
    /\ Init
    /\ [][NextResume]_vars
    /\ \A id \in 1..MaxRows : WF_vars(ReconcileRow(id, NoAnswers))

\* what the carrier did in the passes before the recorded one: nothing to buy,
\* a label sold, a shipment on its way
EarlierWorlds ==
    { NoAnswers,
      [NoAnswers EXCEPT !.rates = <<[provider |-> "USPS", amount_local |-> 5,
                                     attributes |-> {"BESTVALUE"}]>>],
      [NoAnswers EXCEPT !.tracking = [DefaultTracking EXCEPT !.status = "TRANSIT",
                                                             !.status_date = Some(1)]],
      \* an address on the prime meridian
      [NoAnswers EXCEPT !.location = [lat |-> 1, lng |-> 0]] }

NextPass ==
    \/ last.op # "pass" /\ Refresh(OneResponse, EarlierWorlds)
    \/ \E id \in 1..MaxRows, world \in PurchaseWorlds \cup TrackingWorlds : PassRow(id, world)

\* one shipment, and a last pass of which the carrier's answers are kept
SpecPass == Init /\ [][NextPass]_vars

\* two form responses, against a carrier that answers and reports nothing
NextIntake == Refresh(TwoResponses, QuietWorlds)

SpecIntake == Init /\ [][NextIntake]_vars

(***************************************************************************)
(* The spreadsheet of form responses, as the Sheets API returns it: rows   *)
(* of cells, the header row first, each row ending at its last non-empty   *)
(* cell. Column indices count from 0 as in the code.                       *)
(***************************************************************************)
\* str::to_uppercase, str::trim and str::contains on the cells that occur
ToUppercase(s) ==
    CASE s = "United States" -> "UNITED STATES"
      [] s = "Canada" -> "CANADA"
      [] s = "m" -> "M"
      [] OTHER -> s

Trim(s) ==
    CASE s = " Ann " -> "Ann"
      [] s = " a@x.com " -> "a@x.com"
      [] OTHER -> s

Contains(s, sub) ==
    s = sub \/ <<s, sub>> \in { <<"company name", "name">>, <<"patagonia fleece", "fleece">> }

\* the substring SwagSheetColumns::parse looks for, per column
KnownHeaders ==
    [ timestamp |-> "timestamp", name |-> "name", email |-> "email address",
      fleece_size |-> "fleece", hoodie_size |-> "hoodie", country |-> "country",
      sent |-> "sent" ]

\* SwagSheetColumns::parse: every column starts at Default::default() (0) and
\* is assigned the index of each header cell that contains its substring
SwagSheetColumnsParse(values) ==
    LET row == values[1]
        RECURSIVE Scan(_, _)
        Scan(index, columns) ==
            IF index >= Len(row) THEN columns
            ELSE Scan(index + 1,
                      [ f \in DOMAIN columns |->
                          IF Contains(ToLowercase(row[index + 1]), KnownHeaders[f])
                          THEN index ELSE columns[f] ])
    IN  Scan(0, [f \in DOMAIN KnownHeaders |-> 0])

\* a sent mark read from a row too short to have one
SentFlagOfShortRow(columns, row) ==
    IF Len(row) > columns.sent
    THEN Contains(ToLowercase(row[columns.sent + 1]), "true")
    ELSE TRUE

\* lines 577-579
SentFlag(columns, row) ==
    IF Len(row) > columns.sent
    THEN Contains(ToLowercase(row[columns.sent + 1]), "true")
    ELSE FALSE

\* NewOutboundShipment::parse_timestamp: the cell read as Pacific standard time;
\* instants count seconds from 2021-01-01 00:00:00 UTC, None is the unwrap that
\* panics on any other text
ParseTimestamp(timestamp) ==
    IF timestamp = "12/31/2020 16:00:01" THEN Some(1) ELSE None

\* lines 576-690 of parse_from_row_with_columns: the cells of a row under the
\* parsed columns, and the sent flag; None is a panic (a row that ends before
\* its timestamp or email cell, a timestamp that does not parse)
ParseCells(columns, row) ==
    LET Cell(f) == row[columns[f] + 1]
        Has(f) == Len(row) > columns[f] /\ columns[f] # 0
        given == IF Has("country") THEN ToUppercase(Trim(Cell("country"))) ELSE "US"
        hoodie_size == IF Has("hoodie_size") THEN ToUppercase(Trim(Cell("hoodie_size"))) ELSE ""
        fleece_size == IF Has("fleece_size") THEN ToUppercase(Trim(Cell("fleece_size"))) ELSE ""
        hoodie == IF hoodie_size # "" /\ ~Contains(hoodie_size, "N/A")
                  THEN <<"1 x Oxide Hoodie, Size: " \o hoodie_size>> ELSE <<>>
        fleece == IF fleece_size # "" /\ ~Contains(fleece_size, "N/A")
                  THEN <<"1 x Oxide Fleece, Size: " \o fleece_size>> ELSE <<>>
    IN  IF Len(row) <= columns.email \/ Len(row) <= columns.timestamp THEN None
        ELSE IF ParseTimestamp(Cell("timestamp")) = None THEN None
        ELSE Some([ row |-> [ email |-> ToLowercase(Trim(Cell("email"))),
                              created_time |-> ParseTimestamp(Cell("timestamp"))[1],
                              name |-> IF Has("name") THEN Trim(Cell("name")) ELSE "",
                              country |-> IF given = "" THEN "US" ELSE given,
                              contents |-> hoodie \o fleece ],
                    sent |-> SentFlag(columns, row) ])

\* the header rows: the form's layout, the name asked first, a second question
\* whose title contains "name", and a sheet without a Sent column
Headers ==
    { <<"Timestamp", "Name", "Email Address", "Country", "Hoodie", "Patagonia Fleece", "Sent">>,
      <<"Name", "Timestamp", "Email Address", "Country", "Hoodie", "Patagonia Fleece", "Sent">>,
      <<"Timestamp", "Name", "Email Address", "Company name", "Country", "Hoodie",
        "Patagonia Fleece", "Sent">>,
      <<"Timestamp", "Name", "Email Address", "Country", "Hoodie", "Patagonia Fleece">> }

\* what one person answered (or someone typed into the row), per question
Response(email, country, hoodie, fleece, sent) ==
    [ h \in { "Timestamp", "Name", "Email Address", "Company name", "Country", "Hoodie",
              "Patagonia Fleece", "Sent" } |->
        CASE h = "Timestamp" -> "12/31/2020 16:00:01"
          [] h = "Name" -> " Ann "
          [] h = "Email Address" -> email
          [] h = "Company name" -> "Acme"
          [] h = "Country" -> country
          [] h = "Hoodie" -> hoodie
          [] h = "Patagonia Fleece" -> fleece
          [] h = "Sent" -> sent ]

Responses ==
    { Response("a@x.com", "", "M", "", ""),
      Response("a@x.com", "", "M", "", "TRUE"),
      Response("", "", "M", "", ""),
      Response("b@x.com", "United States", "m", "L", ""),
      Response("b@x.com", "Canada", "M", "L", ""),
      Response("b@x.com", "US", "N/A", "", "FALSE"),
      Response("b@x.com", "", "", "", "") }

\* Sheets::get_values (line 1376): the header and one row per response, each
\* row without its trailing empty cells
Sheets ==
    LET RowOf(header, response) ==
            LET cells == [i \in 1..Len(header) |-> response[header[i]]]
                filled == { i \in 1..Len(cells) : cells[i] # "" }
            IN  SubSeq(cells, 1, CHOOSE n \in filled : \A i \in filled : i <= n)
    IN  { <<header>> \o [i \in 1..Len(responses) |-> RowOf(header, responses[i])] :
            header \in Headers, responses \in SeqsUpTo(Responses, MaxSheetRows) }

\* the carrier during the row loop: nothing to buy, a label sold, a customs
\* item refused
SheetWorlds ==
    { NoAnswers,
      [NoAnswers EXCEPT !.rates = <<[provider |-> "USPS", amount_local |-> 5,
                                     attributes |-> {"BESTVALUE"}]>>],
      [NoAnswers EXCEPT !.fail = "create_customs_item"] }

\* lines 1376-1385: the values are fetched and the columns parsed; row_index
\* is the row the loop comes to next, seen the rows it has parsed
OpenSheet ==
    /\ spreadsheet # None
    /\ spreadsheet[1].columns = None
    /\ spreadsheet' = Some([ spreadsheet[1] EXCEPT
                                !.columns = Some(SwagSheetColumnsParse(spreadsheet[1].values)),
                                !.row_index = 1 ])
    /\ UNCHANGED <<db, labels, mails, last, inbound, incoming, existing, merged, pickups,
                   inflight, window, signup, fetch>>

\* lines 1387-1408: one turn of the row loop. An empty email cell ends the
\* loop; a panic ends the run.
SheetRow(world) ==
    /\ spreadsheet # None
    /\ spreadsheet[1].columns # None
    /\ spreadsheet[1].row_index < Len(spreadsheet[1].values)
    /\ LET columns == spreadsheet[1].columns[1]
           row_index == spreadsheet[1].row_index
           row == spreadsheet[1].values[row_index + 1]
           over == [spreadsheet[1] EXCEPT !.row_index = Len(spreadsheet[1].values)]
       IN  IF Len(row) <= columns.email \/ (row[columns.email + 1] # ""
                                             /\ ParseCells(columns, row) = None)
           THEN /\ spreadsheet' = Some(over)
                /\ last' = [Idle EXCEPT !.op = "panic", !.state = "failed"]
                /\ UNCHANGED <<db, labels, mails>>
           ELSE IF row[columns.email + 1] = ""
           THEN /\ spreadsheet' = Some(over)
                /\ last' = [Idle EXCEPT !.op = "break"]
                /\ UNCHANGED <<db, labels, mails>>
           ELSE /\ \E parsed \in { ParseCells(columns, row)[1] } :
                       RowBody(parsed.row, parsed.sent, world)
                /\ spreadsheet' = Some([ spreadsheet[1] EXCEPT
                                            !.row_index = row_index + 1,
                                            !.seen = @ \cup {row_index} ])
    /\ UNCHANGED <<inbound, incoming, existing, merged, pickups, inflight, window,
                   signup, fetch>>

InitSheet ==
    /\ db = <<>>
    /\ labels = <<>>
    /\ mails = <<>>
    /\ pickups = <<>>
    /\ signup = None
    /\ fetch = None
    /\ inflight = NoPasses
    /\ window = NoWindow
    /\ last = Idle
    /\ inbound = BlankInbound
    /\ incoming = DefaultShipment(FormResponse("a@x.com", "Ann"))
    /\ existing = incoming
    /\ merged = incoming
    /\ spreadsheet \in { Some([values |-> values, columns |-> None, row_index |-> 0, seen |-> {}]) :
                            values \in Sheets }

NextSheet ==
    \/ OpenSheet
    \/ \E world \in SheetWorlds : SheetRow(world)

\* one run of the row loop over one sheet
SpecSheet == InitSheet /\ [][NextSheet]_vars

(***************************************************************************)
(* The mailing list webhook (src/cio/src/mailing_list.rs).                 *)
(***************************************************************************)
\* the payloads of the webhook: merges absent, or each text field absent or
\* present, with groupings absent or a map over some of the indices 0, 1, 2
\* whose entries have groups or not
Payloads ==
    LET Text(v) == {None, Some(v)}
        Groupings == {None} \cup
            { Some(g) : g \in UNION { [D -> {[groups |-> None], [groups |-> Some("g")]}] :
                                        D \in SUBSET {0, 1, 2} } }
    IN  { [fired_at |-> 1, merges |-> None] } \cup
        { [ fired_at |-> 1,
            merges |-> Some([ email |-> e, first_name |-> f, last_name |-> l, company |-> c,
                              interest |-> i, groupings |-> g ]) ] :
            e \in Text(" a@x.com "), f \in Text(" Ann "), l \in Text("Lee"),
            c \in Text("Acme"), i \in Text("racks"), g \in Groupings }

\* MailchimpWebhook::as_signup; None is the panic of unwrap() on a grouping
\* that the map does not hold
AsSignup(self) ==
    LET merges == self.merges[1]
        Field(f) == IF self.merges # None /\ merges[f] # None THEN Trim(merges[f][1]) ELSE ""
        grouped == self.merges # None /\ merges.groupings # None
        groupings == merges.groupings[1]
    IN  IF grouped /\ {0, 1, 2} \ DOMAIN groupings # {} THEN None
        ELSE Some([ email |-> Field("email"),
                    first_name |-> Field("first_name"),
                    last_name |-> Field("last_name"),
                    company |-> Field("company"),
                    interest |-> Field("interest"),
                    wants_podcast_updates |-> grouped /\ groupings[0].groups # None,
                    wants_newsletter |-> grouped /\ groupings[1].groups # None,
                    wants_product_updates |-> grouped /\ groupings[2].groups # None,
                    date_added |-> self.fired_at,
                    date_optin |-> self.fired_at,
                    date_last_changed |-> self.fired_at,
                    name |-> Field("first_name") \o " " \o Field("last_name") ])

CallAsSignup ==
    /\ signup # None
    /\ signup[1].state = "run"
    /\ \E r \in { AsSignup(signup[1].payload) } :
           signup' = Some([ signup[1] EXCEPT
                              !.state = IF r = None THEN "failed" ELSE "returned",
                              !.result = r ])
    /\ UNCHANGED <<db, labels, mails, last, inbound, incoming, existing, merged, pickups,
                   inflight, window, spreadsheet, fetch>>

InitSignup ==
    /\ db = <<>>
    /\ labels = <<>>
    /\ mails = <<>>
    /\ pickups = <<>>
    /\ spreadsheet = None
    /\ fetch = None
    /\ inflight = NoPasses
    /\ window = NoWindow
    /\ last = Idle
    /\ inbound = BlankInbound
    /\ incoming = DefaultShipment(FormResponse("a@x.com", "Ann"))
    /\ existing = incoming
    /\ merged = incoming
    /\ signup \in { Some([payload |-> payload, state |-> "run", result |-> None]) :
                       payload \in Payloads }

\* one webhook, converted once
SpecSignup == InitSignup /\ [][CallAsSignup]_vars

(***************************************************************************)
(* The paginated listings of the Ramp client (src/ramp/src/lib.rs):        *)
(* get_transactions, list_departments and list_users are the same code     *)
(* over three endpoints. A page link is 1..MaxPages, 0 is the empty link.  *)
(***************************************************************************)
\* the servers: the next link of the first response and of the response to
\* each link; the data of a response is one item naming it (0 for the first)
Servers == [ first : 0..MaxPages, next : [1..MaxPages -> 0..MaxPages] ]

\* lines 145-166: the first request, its data and its next link
FirstRequest ==
    /\ fetch # None
    /\ fetch[1].state = "new"
    /\ fetch' = Some([ fetch[1] EXCEPT
                         !.data = <<0>>,
                         !.page = fetch[1].server.first,
                         !.state = IF fetch[1].server.first = 0 THEN "returned" ELSE "run" ])
    /\ UNCHANGED <<db, labels, mails, last, inbound, incoming, existing, merged, pickups,
                   inflight, window, spreadsheet, signup>>

\* lines 169-204: one turn of the while loop, and the return when the link is
\* empty. A run that has fetched more responses than there are pages is going
\* round a cycle; what it collects beyond that is not recorded.
FollowPage ==
    /\ fetch # None
    /\ fetch[1].state = "run"
    /\ LET page == fetch[1].page
           next == fetch[1].server.next[page]
           followed == IF next # 0 /\ next # page THEN next ELSE 0
       IN  fetch' = Some([ fetch[1] EXCEPT
                             !.data = IF Len(@) <= MaxPages THEN Append(@, page) ELSE @,
                             !.page = followed,
                             !.state = IF followed = 0 THEN "returned" ELSE "run" ])
    /\ UNCHANGED <<db, labels, mails, last, inbound, incoming, existing, merged, pickups,
                   inflight, window, spreadsheet, signup>>

InitListing ==
    /\ db = <<>>
    /\ labels = <<>>
    /\ mails = <<>>
    /\ pickups = <<>>
    /\ spreadsheet = None
    /\ signup = None
    /\ inflight = NoPasses
    /\ window = NoWindow
    /\ last = Idle
    /\ inbound = BlankInbound
    /\ incoming = DefaultShipment(FormResponse("a@x.com", "Ann"))
    /\ existing = incoming
    /\ merged = incoming
    /\ fetch \in { Some([server |-> server, page |-> 0, data |-> <<>>, state |-> "new"]) :
                      server \in Servers }

NextListing == FirstRequest \/ FollowPage

\* one listing call against a server that answers every request; the call
\* runs on until it returns
SpecListing == InitListing /\ [][NextListing]_vars /\ WF_vars(NextListing)

(***************************************************************************)
(* Properties.                                                             *)
(***************************************************************************)
Rows == 1..Len(db)
Passed == last.op \in {"intake", "reconcile"}
Called(c) == \E k \in 1..Len(last.calls) : last.calls[k] = c
Terminal == {"Delivered", "Returned", "Failure", "Picked up"}

\* C1: no two rows of the outbound table carry the same natural key
\* (email, created_time): the second intake of a key upserts the row of the first.
C1_KeyUnique ==
    \A i, j \in Rows : NaturalKey(db[i]) = NaturalKey(db[j]) => i = j

\* C2: the "on the way" notification is sent exactly once per record over its
\* life, so never a second time.
C2_SingleTransitNotification ==
    \A i \in Rows : mails[i] <= 1

\* C3: the carrier sold at most one label per record, whatever passes were
\* interrupted after a purchase.
C3_AtMostOneLabel ==
    \A p, q \in 1..Len(labels) :
        p < q /\ labels[p].ok /\ labels[q].ok => labels[p].row # labels[q].row

\* C3 (amended): a purchase whose checkpoint (the update right after it) was
\* written is never followed by another purchase for that row.
C3_NoLabelAfterCheckpoint ==
    \A p, q \in 1..Len(labels) :
        p < q /\ labels[p].row = labels[q].row => ~labels[p].saved

\* C3 witness: a pass bought a label, wrote the checkpoint and was interrupted
\* before "Label printed" was written; a later pass ran on that row to its end.
C3_Witness ==
    /\ Len(labels) = 1 /\ labels[1].saved
    /\ db[labels[1].row].status = "Label created"
    /\ last.op = "reconcile" /\ last.row = labels[1].row
    /\ last.shippo_id # "" /\ last.state = "returned"

\* C4: a pass that starts with a carrier shipment id and no local pickup creates
\* no carrier shipment, buys no label, prints nothing and sends no internal
\* notification.
C4_TrackingOnly ==
    Passed /\ last.shippo_id # "" /\ ~last.local_pickup =>
        /\ ~Called("create_shipment")
        /\ ~Called("create_shipping_label_from_rate")
        /\ ~Called("print_label")
        /\ ~Called("send_email_internally")

\* C4 witness: such a pass polled tracking and ran to its end
C4_Witness ==
    /\ Passed /\ last.shippo_id # "" /\ ~last.local_pickup
    /\ Called("get_shipping_label") /\ Called("register_tracking_webhook")
    /\ last.state = "returned"

\* C5: once set, shipped_time of a row never moves to a later time.
C5_ShippedTimeNeverLater ==
    [][\A i \in Rows :
          db[i].shipped_time # None /\ db'[i].shipped_time # None
              => db'[i].shipped_time[1] <= db[i].shipped_time[1]]_vars

\* C6: once non-null, shipped_time and delivered_time of a row are never null again.
C6_TimesNeverCleared ==
    [][\A i \in Rows :
          /\ db[i].shipped_time # None => db'[i].shipped_time # None
          /\ db[i].delivered_time # None => db'[i].delivered_time # None]_vars

\* C7: a pass that starts with local_pickup set and is not interrupted leaves the
\* row "Picked up", calls nothing but the geocoder and update(), and a further
\* pass on the row, whatever the carrier would answer, leaves it as it is.
C7_LocalPickupStops ==
    Passed /\ last.local_pickup /\ last.state # "failed" =>
        /\ db[last.row].status = "Picked up"
        /\ \A k \in 1..Len(last.calls) : last.calls[k] \in {"geocode", "update"}
        /\ \A world \in CrashWorlds \cup TrackingWorlds \cup PurchaseWorlds :
              LET again == Reconcile(last.row, db[last.row], labels, world)
              IN  /\ again.saved = db[last.row]
                  /\ again.bought = labels
                  /\ \A k \in 1..Len(again.calls) : again.calls[k] = "update"

\* C7 witness: a local-pickup pass ran to its end on a row that had a label
C7_Witness ==
    /\ Passed /\ last.local_pickup /\ last.state = "returned"
    /\ db[last.row].status = "Picked up" /\ db[last.row].shippo_id # ""

\* C8: a row whose status is terminal keeps that status.
C8_TerminalStatusKept ==
    [][\A i \in Rows : db[i].status \in Terminal => db'[i].status = db[i].status]_vars

\* the sticky fields of the record kind that was merged, and a field's empty value
Sticky ==
    IF "email" \in DOMAIN incoming
    THEN {"status", "carrier", "tracking_number", "tracking_link", "tracking_status",
          "label_link", "pickup_date", "shipped_time", "delivered_time", "shippo_id",
          "eta", "cost", "notes"}
    ELSE {"carrier", "tracking_number", "tracking_link", "tracking_status",
          "shipped_time", "delivered_time", "eta", "notes"}
MirrorOwned ==
    IF "email" \in DOMAIN incoming THEN {"link_to_package_pickup", "geocode_cache"} ELSE {}
Empty(f) == Values(f)[1]
Merged == last.op = "merge"

C11_MergeIdempotent ==
    [][Merged /\ last'.op = "remerge" => merged' = merged]_vars

\* C11 witness: a second merge ran on a result that took the cost from the
\* mirror and the rest from the candidate
C11_Witness ==
    /\ last.op = "remerge" /\ "email" \in DOMAIN incoming
    /\ incoming.cost = 0 /\ existing.cost # 0 /\ merged.cost = existing.cost
    /\ incoming.name # existing.name /\ merged.name = incoming.name

\* C12: link_to_package_pickup and geocode_cache of a merged outbound record are
\* the existing record's, whatever the incoming record holds.
C12_MirrorOwnedFromExisting ==
    Merged /\ "email" \in DOMAIN incoming =>
        /\ merged.link_to_package_pickup = existing.link_to_package_pickup
        /\ merged.geocode_cache = existing.geocode_cache

\* C12 witness: the incoming record had a geocode cache, the existing one none,
\* and the merged record has none
C12_Witness ==
    /\ Merged /\ "email" \in DOMAIN incoming
    /\ incoming.geocode_cache # "" /\ existing.geocode_cache = "" /\ merged.geocode_cache = ""

\* what a recorded poll read: the dates of the TRANSIT entries of its history
Polled == last'.op = "poll" /\ last'.state = "returned" /\ ~last'.local_pickup
TransitDates == { last'.report.history[k].status_date[1] :
                    k \in { j \in 1..Len(last'.report.history) :
                              /\ last'.report.history[j].status = "TRANSIT"
                              /\ last'.report.history[j].status_date # None } }
Earliest(S) == CHOOSE m \in S : \A d \in S : m <= d
\* the shipped time the record holds when the history is scanned: the date of
\* the current status if this poll moved the record into Shipped, else the stored one
HeldBeforeScan ==
    LET held == IF last'.report.status \in {"TRANSIT", "IN_TRANSIT"}
                     /\ db[last'.row].status # "Shipped"
                THEN last'.report.status_date
                ELSE db[last'.row].shipped_time
    IN  IF held = None THEN {} ELSE {held[1]}

\* C14: after a tracking poll whose history contains dated TRANSIT entries,
\* shipped_time is the earliest of their dates, whatever the date of the
\* current status.
C14_EarliestOfHistory ==
    [][Polled /\ TransitDates # {}
          => db'[last'.row].shipped_time = Some(Earliest(TransitDates))]_vars

\* C14 (amended): after such a poll shipped_time is the earliest of the dates of
\* the history's TRANSIT entries and the shipped time held when the history is
\* scanned.
C14_EarliestOfHistoryAndHeld ==
    [][Polled /\ TransitDates # {}
          => db'[last'.row].shipped_time = Some(Earliest(TransitDates \cup HeldBeforeScan))]_vars

\* C14 witness: a poll whose history held TRANSIT dated 2 and then TRANSIT dated
\* 1 left shipped_time at 1
C14_Witness ==
    /\ last.op = "poll" /\ last.state = "returned"
    /\ Len(last.report.history) = 2
    /\ last.report.history[1].status_date = Some(2)
    /\ last.report.history[2].status_date = Some(1)
    /\ db[last.row].shipped_time = Some(1)

\* C15: a poll reporting DELIVERED stores status Delivered and the reported date
\* as delivered_time, RETURNED stores Returned, FAILURE stores Failure; a status
\* that is none of these nor a transit synonym leaves the status as it was.
C15_StatusMapping ==
    [][Polled =>
          LET st == last'.report.status
              before == db[last'.row]
              after == db'[last'.row]
          IN  /\ st = "DELIVERED" => /\ after.status = "Delivered"
                                     /\ after.delivered_time = last'.report.status_date
              /\ st = "RETURNED" => after.status = "Returned"
              /\ st = "FAILURE" => after.status = "Failure"
              /\ st \notin {"DELIVERED", "RETURNED", "FAILURE", "TRANSIT", "IN_TRANSIT"}
                    => after.status = before.status]_vars

\* C15 witness: a poll reported DELIVERED with a date and the row holds both
C15_Witness ==
    /\ last.op = "poll" /\ last.state = "returned"
    /\ last.report.status = "DELIVERED" /\ last.report.status_date # None
    /\ db[last.row].status = "Delivered"
    /\ db[last.row].delivered_time = last.report.status_date

Expanded == last.op \in {"expand", "expand_default"}

\* C13: in every persisted record oxide_tracking_link is the branded link of
\* the record's carrier and tracking number.
C13_LinkOfCarrierAndNumber ==
    Expanded => /\ incoming.oxide_tracking_link = OxideTrackingLink(incoming)
                /\ inbound.oxide_tracking_link = OxideTrackingLink(inbound)

\* C17: a failed carrier call leaves the inbound record as it was, and the
\* record is upserted under the (carrier, tracking_number) it had before.
C17_FailedCallChangesNothing ==
    last.op = "expand_default" =>
        /\ incoming.tracking_number = existing.tracking_number
        /\ incoming.tracking_status = existing.tracking_status
        /\ incoming.eta = existing.eta
        /\ incoming.messages = existing.messages
        /\ MatchOn(incoming) = MatchOn(existing)
        /\ inbound = existing

\* C16: in a run over the table every row's pass is started, whatever happened
\* in the passes of the rows before it.
C16_EveryRowReconciled ==
    last.op = "batch" => last.row = Len(db)

\* the rows create_pickup is about: "Label printed", USPS, no pickup date
Selectable == { i \in Rows : /\ db[i].status = "Label printed"
                             /\ db[i].carrier = "USPS"
                             /\ db[i].pickup_date = None }
\* create_pickup ran and its request to the carrier was the call that failed
Rejected ==
    last'.op = "pickup" /\ last'.state = "failed" /\ last'.calls = <<"list_carrier_accounts">>
\* create_pickup ran to its end and its request was accepted
PickedUp ==
    /\ last'.op = "pickup" /\ last'.state = "returned"
    /\ \E k \in 1..Len(last'.calls) : last'.calls[k] = "create_pickup"

\* C18: a pickup request the carrier rejects creates no PackagePickup row and
\* stamps no shipment.
C18_RejectedPickupChangesNothing ==
    [][Rejected => pickups' = pickups /\ db' = db]_vars

\* C18 witness: the request for two selected shipments was rejected; there is
\* no PackagePickup row and neither shipment has a pickup date
C18_Witness ==
    /\ last.op = "pickup" /\ last.state = "failed" /\ last.calls = <<"list_carrier_accounts">>
    /\ Selectable = {1, 2} /\ pickups = <<>>

\* C19: a create_pickup that succeeds submits one request, adds one
\* PackagePickup row whose transactions are the shippo ids of the selected rows
\* and which links them, stamps each selected row with the window's date and
\* changes no other row.
C19_OnePickupForSelection ==
    [][PickedUp =>
          /\ Cardinality({ k \in 1..Len(last'.calls) : last'.calls[k] = "create_pickup" }) = 1
          /\ Len(pickups') = Len(pickups) + 1
          /\ \A k \in 1..Len(pickups) : pickups'[k] = pickups[k]
          /\ LET np == pickups'[Len(pickups')]
             IN  /\ Len(np.transactions) = Cardinality(Selectable)
                 /\ { np.transactions[j] : j \in 1..Len(np.transactions) }
                        = { db[i].shippo_id : i \in Selectable }
                 /\ { np.link_to_outbound_shipments[j] :
                        j \in 1..Len(np.link_to_outbound_shipments) } = Selectable
                 /\ \A i \in Rows :
                       db'[i] = IF i \in Selectable
                                THEN [db[i] EXCEPT !.pickup_date = Some(np.requested_start_time)]
                                ELSE db[i]]_vars

\* C19 witness: one pickup bundles both shipments and both carry its date
C19_Witness ==
    /\ last.op = "pickup" /\ last.state = "returned"
    /\ Len(pickups) = 1 /\ pickups[1].transactions = <<"L1", "L2">>
    /\ \A i \in Rows : db[i].pickup_date = Some(pickups[1].requested_start_time)

\* C20: with no row "Label printed", USPS and without pickup date, create_pickup
\* makes no carrier call and creates no PackagePickup.
C20_NothingToPickUp ==
    [][last'.op = "pickup" /\ Selectable = {}
          => last'.calls = <<>> /\ pickups' = pickups /\ db' = db]_vars

\* C20 witness: create_pickup returned without a call on a table whose rows
\* are all shipped or already have a pickup date
C20_Witness ==
    /\ last.op = "pickup" /\ last.state = "returned" /\ last.calls = <<>>
    /\ Len(db) = 2 /\ Selectable = {}
    /\ \E i \in Rows : db[i].status = "Shipped"

\* the local day get_next_business_day was called on and the local window
LocalToday == WithTimezonePacific(window.now).day
LocalStart == WithTimezonePacific(window.result[1].start_time)
LocalEnd == WithTimezonePacific(window.result[1].end_time)
Weekend == {"Saturday", "Sunday"}

C22_OneLabelPerKey ==
    /\ \A p, q \in Runs :
          p # q /\ inflight[p] # None /\ inflight[q] # None
              => \/ inflight[p][1].row # inflight[q][1].row
                 \/ inflight[p][1].shipment.shippo_id # ""
    /\ \A a, b \in 1..Len(labels) : a # b => labels[a].row # labels[b].row

\* the pass that just ran on row id bought the label, checkpointed it and
\* failed before the label was printed
AwaitingPrint(id) ==
    /\ id \in Rows /\ db[id].status = "Label created"
    /\ \E p \in 1..Len(labels) : labels[p].row = id /\ labels[p].ok /\ labels[p].saved
    /\ Passed /\ last.row = id /\ last.state = "failed"
    /\ Called("create_shipping_label_from_rate") /\ ~Called("print_label")

\* C23: a record whose label was bought and checkpointed in a pass that failed
\* before printing is printed and advanced to "Label printed" by a later pass,
\* unless it is handed over as a local pickup.
C23_PrintedLater ==
    \A id \in 1..MaxRows :
        AwaitingPrint(id) ~> (id \in Rows /\ (db[id].status = "Label printed" \/ db[id].local_pickup))

\* the position of call c in the pass that ran, 0 when it was not made
Position(c) ==
    IF Called(c) THEN CHOOSE k \in 1..Len(last.calls) : last.calls[k] = c ELSE 0

\* C24: in a pass that buys a label the internal notification is sent only
\* after two writes of the record have followed the purchase: the checkpoint
\* with "Label created" and the write of "Label printed".
C24_NotifiedAfterPersist ==
    /\ Passed /\ Called("create_shipping_label_from_rate") /\ labels[Len(labels)].ok
    /\ Called("send_email_internally")
    =>
        Cardinality({ j \in 1..Len(last.calls) :
                        /\ last.calls[j] = "update"
                        /\ Position("create_shipping_label_from_rate") < j
                        /\ j < Position("send_email_internally") }) = 2

\* C26: a pass whose purchase did not report SUCCESS leaves the provider's
\* status as the record's status, prints nothing and sends no internal
\* notification.
C26_FailedPurchaseStops ==
    /\ Passed /\ last.state = "returned"
    /\ Called("create_shipping_label_from_rate") /\ ~labels[Len(labels)].ok
    => /\ db[last.row].status = Transaction(Len(labels), FALSE).status
       /\ ~Called("print_label")
       /\ ~Called("send_email_internally")

\* a recorded pass ran to its end on a record that is no local pickup
Recorded == last'.op = "pass" /\ last'.state = "returned" /\ ~last'.local_pickup
Tagged == { k \in 1..Len(last'.answers.rates) :
              \/ "BESTVALUE" \in last'.answers.rates[k].attributes
              \/ "CHEAPEST" \in last'.answers.rates[k].attributes }
Purchases == { k \in 1..Len(last'.calls) : last'.calls[k] = "create_shipping_label_from_rate" }

\* C25: a pass on a record without carrier shipment id buys at most one label,
\* against the first rate of the response tagged BESTVALUE or CHEAPEST; with no
\* such rate it buys none, runs to its end and leaves status, carrier, cost,
\* the tracking fields and shippo_id as they were.
C25_FirstTaggedRate ==
    [][Recorded /\ last'.shippo_id = "" =>
          LET before == db[last'.row]
              after == db'[last'.row]
          IN  /\ Cardinality(Purchases) <= 1
              /\ Len(labels') = Len(labels) + Cardinality(Purchases)
              /\ Tagged = {} =>
                    /\ Purchases = {}
                    /\ \A f \in {"status", "carrier", "cost", "tracking_number", "tracking_link",
                                  "tracking_status", "shippo_id"} : after[f] = before[f]
              /\ Tagged # {} =>
                    LET first == CHOOSE k \in Tagged : \A j \in Tagged : k <= j
                    IN  /\ Cardinality(Purchases) = 1
                        /\ after.carrier = last'.answers.rates[first].provider
                        /\ after.cost = last'.answers.rates[first].amount_local]_vars

\* C25 witness: the response held an untagged rate and then a tagged one, and
\* the label was bought against the second
C25_Witness ==
    /\ last.op = "pass" /\ last.state = "returned" /\ last.shippo_id = ""
    /\ Len(last.answers.rates) = 2
    /\ last.answers.rates[1].attributes = {"FASTEST"}
    /\ "CHEAPEST" \in last.answers.rates[2].attributes
    /\ Called("create_shipping_label_from_rate")
    /\ db[last.row].cost = 7 /\ db[last.row].carrier = "USPS" /\ db[last.row].shippo_id # ""

\* C29: a pass whose webhook registration fails runs to its end; if it bought
\* a label it prints it and leaves the record "Label printed"; if it is a
\* tracking pass it leaves status, shipped_time and delivered_time as they were.
C29_WebhookFailureNotFatal ==
    [][/\ last'.op = "pass" /\ ~last'.local_pickup
       /\ ~last'.answers.webhook_ok
       /\ \E k \in 1..Len(last'.calls) : last'.calls[k] = "register_tracking_webhook"
       =>
          LET before == db[last'.row]
              after == db'[last'.row]
          IN  /\ last'.state = "returned"
              /\ last'.shippo_id = "" /\ last'.answers.label_ok =>
                    /\ \E k \in 1..Len(last'.calls) : last'.calls[k] = "print_label"
                    /\ after.status = "Label printed"
              /\ last'.shippo_id # "" =>
                    /\ after.status = before.status
                    /\ after.shipped_time = before.shipped_time
                    /\ after.delivered_time = before.delivered_time]_vars

\* C29 witness: the registration failed in a pass that bought a label, and the
\* record is "Label printed"
C29_Witness ==
    /\ last.op = "pass" /\ last.state = "returned" /\ last.shippo_id = ""
    /\ ~last.answers.webhook_ok /\ last.answers.label_ok
    /\ Called("register_tracking_webhook") /\ Called("print_label")
    /\ db[last.row].status = "Label printed"

\* C27: over any sequence of create_pickup runs, interrupted or not, a shipment
\* is linked to at most one PackagePickup.
C27_OnePickupPerShipment ==
    \A i \in Rows :
        Cardinality({ k \in 1..Len(pickups) :
                        \E j \in 1..Len(pickups[k].link_to_outbound_shipments) :
                            pickups[k].link_to_outbound_shipments[j] = i }) <= 1

\* C28: the intake of a candidate never replaces the row of a shipment with
\* another natural key: every row keeps its (email, created_time).
C28_RowKeepsItsKey ==
    [][last'.op = "intake" => \A i \in Rows : NaturalKey(db'[i]) = NaturalKey(db[i])]_vars

\* the accounts the carrier listed to create_pickup that are of USPS
UspsListed == { k \in 1..Len(last'.answers.accounts) :
                  ToLowercase(last'.answers.accounts[k].carrier) = "usps" }

\* C30: when the carrier lists no USPS account create_pickup sends no pickup
\* request, creates no PackagePickup, stamps no shipment and returns; a request
\* it sends carries the id of the first listed account whose carrier is "usps"
\* in any case of letters.
C30_UspsAccount ==
    [][last'.op = "pickup" =>
          /\ last'.answers.fail # "list_carrier_accounts" /\ UspsListed = {} =>
                /\ last'.request = None /\ last'.state = "returned"
                /\ pickups' = pickups /\ db' = db
          /\ last'.request # None =>
                /\ UspsListed # {}
                /\ last'.request[1].carrier_account =
                      last'.answers.accounts[CHOOSE k \in UspsListed :
                                                \A j \in UspsListed : k <= j].object_id]_vars

\* C30 witness: two shipments were selected, the carrier listed an account of
\* UPS only, and create_pickup returned after that call with nothing changed
C30_Witness ==
    /\ last.op = "pickup" /\ last.state = "returned"
    /\ Len(last.answers.accounts) = 1 /\ last.answers.accounts[1].carrier = "UPS"
    /\ last.calls = <<"list_carrier_accounts">> /\ last.request = None
    /\ Selectable = {1, 2} /\ pickups = <<>>

\* C31: a pass that starts from a record with a non-zero latitude or a non-zero
\* longitude makes no geocode call and leaves both coordinates as they were
C31_GeocodeOnlyWhenBothZero ==
    [][ ( /\ last'.op \in {"reconcile", "pass"}
          /\ last'.row \in 1..Len(db)
          /\ (db[last'.row].latitude # 0 \/ db[last'.row].longitude # 0) )
        => ( /\ \A k \in 1..Len(last'.calls) : last'.calls[k] # "geocode"
             /\ db'[last'.row].latitude = db[last'.row].latitude
             /\ db'[last'.row].longitude = db[last'.row].longitude ) ]_vars

C33_CustomsExactlyWhenAbroad ==
    ( /\ spreadsheet # None
      /\ last.op = "intake"
      /\ last.request # None )
        => LET header == spreadsheet[1].values[1]
               row == spreadsheet[1].values[spreadsheet[1].row_index]
               at == CHOOSE i \in 1..Len(header) : header[i] = "Country"
               given == IF Len(row) >= at THEN row[at] ELSE ""
               items == { k \in 1..Len(last.calls) : last.calls[k] = "create_customs_item" }
           IN  /\ given \in {"US", "United States"}
                    => /\ last.request[1].customs_declaration = None
                       /\ items = {}
               /\ given \notin {"", "US", "United States"}
                    => /\ last.request[1].customs_declaration # None
                       /\ Cardinality(items) = Len(db[last.row].contents)

\* C34: every column with a matching header cell is the index of the first such
\* cell, and a name or country whose header is the first cell of the sheet is
\* read from the first cell of the row
C34_FirstMatchingHeader ==
    (spreadsheet # None /\ spreadsheet[1].columns # None)
        => LET header == spreadsheet[1].values[1]
               columns == spreadsheet[1].columns[1]
               Matches(f) == { i \in 0..(Len(header) - 1) :
                                 Contains(ToLowercase(header[i + 1]), KnownHeaders[f]) }
               row == spreadsheet[1].values[spreadsheet[1].row_index]
           IN  /\ \A f \in DOMAIN KnownHeaders :
                      Matches(f) # {} => \A i \in Matches(f) : columns[f] <= i
               /\ (last.op = "intake" /\ 0 \in Matches("name"))
                      => db[last.row].name = Trim(row[1])

\* C36: a turn of the row loop on a row whose sent cell contains "true" writes
\* nothing to the table, buys nothing, notifies nobody and makes no call; a row
\* that ends before the sent column is taken in like a row not marked sent
C36_SentRowSkipped ==
    [][ ( /\ spreadsheet # None
          /\ spreadsheet[1].columns # None
          /\ spreadsheet'[1].seen # spreadsheet[1].seen )
        => LET columns == spreadsheet[1].columns[1]
               row == spreadsheet[1].values[spreadsheet[1].row_index + 1]
           IN  /\ (Len(row) > columns.sent /\ ToLowercase(row[columns.sent + 1]) = "true")
                    => /\ last'.op = "skip"
                       /\ last'.calls = <<>>
                       /\ UNCHANGED <<db, labels, mails, pickups>>
               /\ Len(row) <= columns.sent => last'.op = "intake" ]_vars

\* a row marked sent was skipped after another row was taken in, in a sheet
\* that has a Sent column
C36_Witness ==
    /\ spreadsheet # None
    /\ spreadsheet[1].columns # None
    /\ spreadsheet[1].columns[1].sent # 0
    /\ last.op = "skip"
    /\ Len(db) = 1
    /\ spreadsheet[1].seen = {1, 2}

\* C37: when the row loop is over without a panic, every data row with a
\* non-empty email cell has been parsed, whatever rows came before it
C37_EveryRowWithEmailParsed ==
    ( /\ spreadsheet # None
      /\ spreadsheet[1].columns # None
      /\ spreadsheet[1].row_index = Len(spreadsheet[1].values)
      /\ last.op # "panic" )
        => LET columns == spreadsheet[1].columns[1] IN
           \A i \in 1..(Len(spreadsheet[1].values) - 1) :
               LET row == spreadsheet[1].values[i + 1] IN
               (Len(row) > columns.email /\ row[columns.email + 1] # "")
                   => i \in spreadsheet[1].seen

\* C35: the candidate of a form response is the one an empty repository would
\* give, whatever the repository holds
C35_RowAdapterPure ==
    \A row \in OneResponse : \A found \in {0} \cup Rows :
        ( /\ found = 0 <=> \A i \in Rows : NaturalKey(db[i]) # NaturalKey(row)
          /\ found # 0 => NaturalKey(db[found]) = NaturalKey(row) )
            => ParseFromRowWithColumns(db, row, found) = ParseFromRowWithColumns(<<>>, row, 0)

\* C38: every row of the outbound table has one of the named statuses or the
\* provider's failure status, never the empty one
C38_StatusNeverEmpty ==
    \A i \in Rows :
        db[i].status \in { "Queued", "Label created", "Label printed", "Shipped", "Delivered",
                           "Returned", "Failure", "Picked up", "ERROR" }

\* C39: as_signup returns for every payload; in the candidate each text field
\* is the trimmed payload value or empty when the payload has none, and each
\* wants_ flag is true only for a grouping the payload holds with groups
C39_SignupOfEveryPayload ==
    (signup # None /\ signup[1].state # "run")
        => /\ signup[1].state = "returned"
           /\ LET payload == signup[1].payload
                  result == signup[1].result[1]
                  Present(f) == payload.merges # None /\ payload.merges[1][f] # None
                  Wants(k) == /\ Present("groupings")
                              /\ k \in DOMAIN payload.merges[1].groupings[1]
                              /\ payload.merges[1].groupings[1][k].groups # None
              IN  /\ \A f \in {"email", "first_name", "last_name", "company", "interest"} :
                         result[f] = IF Present(f) THEN Trim(payload.merges[1][f][1]) ELSE ""
                  /\ result.wants_podcast_updates = Wants(0)
                  /\ result.wants_newsletter = Wants(1)
                  /\ result.wants_product_updates = Wants(2)

\* C40: a listing call against a server with finitely many pages returns
C40_ListingReturns == <>(fetch # None /\ fetch[1].state = "returned")

====
